---- MODULE Spec2Model ----
(***************************************************************************)
(* A model of empiriqa (epiq): the dispatcher of main.rs, the process      *)
(* pipeline engine of pipeline.rs, the stage registry of prompt.rs, the    *)
(* notification and output tasks of main.rs.                               *)
(*                                                                         *)
(* Every tokio task is a process of the model.  A step of a task is the    *)
(* code between two await points that can suspend it.                      *)
(***************************************************************************)
EXTENDS Integers, Sequences, FiniteSets, TLC

VARIABLES
    eventCh,        \* mpsc::channel(1) of batches, aggregator -> dispatcher (main.rs:80)
    nOps,           \* number of aggregated ops produced so far (model bound)
    nKeys,          \* number of characters typed so far (model bound)
    batch,          \* the batch the dispatcher is iterating over (main.rs:136)
    dpc,            \* dispatcher position inside the Enter handler
    cur_pipeline,   \* main.rs:79, 0 is None, otherwise the id of a Pipeline
    subLog,         \* the steps the dispatcher took in the current submission
    subPrev,        \* cur_pipeline when the current submission started
    bcast,          \* broadcast::channel(1) of ops, as seen by the registry loop
    resetPending,   \* completions pending on the reset broadcast receiver
    editors,        \* EditorMap: the BTreeMap as a key-sorted sequence of entries
    cur_index,      \* the focused key of the registry loop
    terminal_shape, \* the height the registry loop recorded
    ppc,            \* registry loop position
    notifyCh,       \* mpsc::channel(1) of NotifyMessage (main.rs:89)
    notifyShown,    \* the message the notification pane shows
    outputCh,       \* mpsc::channel(1) of lines, the output sink (main.rs:95)
    queue,          \* queue::State: the scrollback lines
    pipelines,      \* every Pipeline::spawn call so far: its commands and result
    task,           \* task[p][i]: the tasks and the process of stage i of call p
    chan,           \* chan[p][i]: the mpsc::channel(100) feeding stage i of call p
    buf,            \* the raw events the aggregator has pushed since its last tick
    drained,        \* the raw events the last call of operate was given
    nEvents,        \* number of raw events pushed so far (model bound)
    keyArgs,        \* the two keys EditorIndex::mediant is called with
    keyRet,         \* the key EditorIndex::mediant returned, <<>> before the call
    shifted,        \* the last VerticalCursor handling: registry, key, counts, result
    removed,        \* the last Ctrl+D handling: registry, key, count, result
    shrunk,         \* the last Resize handling: registry, key, height, result
    position,       \* Queue.buf cursor position (first visible line, 0-based)
    last_modified_time, \* output_stream: time of the last push or effective scroll
    last_render_time,   \* output_stream: time of the last redraw or reset
    clock,          \* what Local::now() returns
    pushed,         \* the lines pushed since the queue was created or reset
    nScrolls,       \* number of VerticalScroll ops handled so far (model bound)
    dirty,          \* a push or effective scroll happened since the last redraw
    draws,          \* number of redraws of the output pane
    lastShift,      \* the last State::shift: its result, whether the window changed
    lastReset,      \* the last reset: what it discarded, how many resets so far
    obcast,         \* broadcast::channel(1) of ops, as seen by the output task
    handled,        \* serial number of the last op the registry loop received
    ohandled,       \* serial number of the last op the output task received
    signalled,      \* for each reset signal sent: the pipelines spawned before it
    dimmed,         \* the keys of the editors whose styles carry Attribute::Dim
    panes,          \* Renderer.panes: the keys of its PaneIndex::Editor entries
    stale,          \* the editor panes of the last draw that had no registry entry
    elock,          \* the task holding the registry mutex, "none" when free
    rlock,          \* the task holding the renderer mutex, "none" when free
    hnd,            \* registry loop: the op in hand and the handler's locals
    npc             \* notify_stream position

vars == <<eventCh, nOps, nKeys, batch, dpc, cur_pipeline, subLog, subPrev,
          bcast, resetPending, editors, cur_index, terminal_shape, ppc,
          notifyCh, notifyShown, outputCh, queue, pipelines, task, chan,
          buf, drained, nEvents, keyArgs, keyRet, shifted, removed, shrunk,
          position, last_modified_time, last_render_time, clock, pushed,
          nScrolls, dirty, draws, lastShift, lastReset,
          obcast, handled, ohandled, signalled,
          dimmed, panes, stale, elock, rlock, hnd, npc>>

dispVars == <<dpc, cur_pipeline, subLog, subPrev>>
promptVars == <<editors, cur_index, terminal_shape, ppc>>
pipeVars == <<pipelines, task, chan>>
aggVars == <<buf, drained, nEvents>>
keyVars == <<keyArgs, keyRet, shifted, removed, shrunk>>
outVars == <<position, last_modified_time, last_render_time, clock, pushed,
             nScrolls, dirty, draws, lastShift, lastReset>>
dlvVars == <<obcast, handled, ohandled, signalled>>
viewVars == <<dimmed, panes, stale>>
taskVars == <<elock, rlock, hnd, npc>>

-----------------------------------------------------------------------------
(* Bounds of the model *)

MaxOps == 4
MaxSpawns == 2
MaxKeys == 2
QueueCapacity == 2
MaxEvents == 4

(* Constants of the program *)

InterStageCap == 100
OutputCap == 1
EventCap == 1
NotifyCap == 1
PaneReserve == 2

HEAD_INDEX == <<1, 1>>

-----------------------------------------------------------------------------
(* Command text: a sequence of characters *)

Chars == {"a", "x", " ", "'", "#"}

RECURSIVE TrimStart(_)
TrimStart(s) ==
    IF s # <<>> /\ Head(s) = " " THEN TrimStart(Tail(s)) ELSE s

RECURSIVE TrimEnd(_)
TrimEnd(s) ==
    IF s # <<>> /\ s[Len(s)] = " " THEN TrimEnd(SubSeq(s, 1, Len(s) - 1)) ELSE s

Trim(s) == TrimEnd(TrimStart(s))

\* shlex::split: words separated by blanks, single quotes group, # where a
\* word would start opens a comment up to the end of the line, an open quote
\* at the end of the text is a syntax error (None).
RECURSIVE ShlexRun(_, _, _, _, _)
ShlexRun(s, i, mode, word, parts) ==
    IF i > Len(s)
    THEN CASE mode = "quote" -> [ok |-> FALSE, parts |-> <<>>]
           [] mode = "word" -> [ok |-> TRUE, parts |-> Append(parts, word)]
           [] OTHER -> [ok |-> TRUE, parts |-> parts]
    ELSE LET c == s[i] IN
         CASE mode = "skip" ->
                IF c = " " THEN ShlexRun(s, i + 1, "skip", <<>>, parts)
                ELSE IF c = "#" THEN ShlexRun(s, Len(s) + 1, "skip", <<>>, parts)
                ELSE IF c = "'" THEN ShlexRun(s, i + 1, "quote", <<>>, parts)
                ELSE ShlexRun(s, i + 1, "word", <<c>>, parts)
           [] mode = "word" ->
                IF c = " " THEN ShlexRun(s, i + 1, "skip", <<>>, Append(parts, word))
                ELSE IF c = "'" THEN ShlexRun(s, i + 1, "quote", word, parts)
                ELSE ShlexRun(s, i + 1, "word", Append(word, c), parts)
           [] OTHER ->
                IF c = "'" THEN ShlexRun(s, i + 1, "word", word, parts)
                ELSE ShlexRun(s, i + 1, "quote", Append(word, c), parts)

ShlexSplit(s) == ShlexRun(s, 1, "skip", <<>>, <<>>)

\* parse_command: Ok(Command) or Err
parse_command(cmd) ==
    LET r == ShlexSplit(Trim(cmd)) IN
    IF ~r.ok THEN [ok |-> FALSE, err |-> "InvalidSyntax", program |-> <<>>]
    ELSE IF r.parts = <<>> THEN [ok |-> FALSE, err |-> "EmptyCommand", program |-> <<>>]
    ELSE [ok |-> TRUE, err |-> "", program |-> r.parts[1]]

\* The executables the operating system finds
Installed == {<<"a">>}

\* A variant of setup_command that never fails
setup_command_AlwaysOk(program) == [ok |-> TRUE, err |-> ""]

\* setup_command: Command::spawn fails when the program is not found
setup_command(program) ==
    IF program \in Installed THEN [ok |-> TRUE, err |-> ""]
    ELSE [ok |-> FALSE, err |-> "NotFound"]

\* Stage::spawn of one command: parse_command(cmd)? then setup_command(..)?
StageSpawnResult(cmd) ==
    LET p == parse_command(cmd) IN
    IF ~p.ok THEN [ok |-> FALSE, err |-> p.err]
    ELSE setup_command(p.program)

-----------------------------------------------------------------------------
(* Pipeline::spawn *)

\* A variant of the wiring where every stage is handed the sink
WireTxToSink(n, i) == 0

\* The end a stage's forwarding task sends to: 0 is the output sink, j > 0 is
\* the channel feeding stage j.  Stage n is the last one.
WireTx(n, i) == IF i = n THEN 0 ELSE i + 1

\* The first command Stage::spawn fails on, 0 when none
FirstBad(cmds) ==
    IF \E i \in 1..Len(cmds) : ~StageSpawnResult(cmds[i]).ok
    THEN CHOOSE i \in 1..Len(cmds) :
            /\ ~StageSpawnResult(cmds[i]).ok
            /\ \A j \in 1..(i - 1) : StageSpawnResult(cmds[j]).ok
    ELSE 0

\* A script is what a process will write on a stream: lines numbered from 1,
\* "ok" a line of valid UTF-8, "bad" a line next_line() answers Err for.
NewStage(cmd, i, n, prog) ==
    [cmd    |-> cmd,
     kind   |-> IF i = 1 THEN "Head" ELSE "Pipe",
     waiter |-> "running",
     outpc  |-> "select",
     held   |-> <<>>,
     inpc   |-> IF i = 1 THEN "none" ELSE "recv",
     stdout |-> prog.out,
     stderr |-> prog.err,
     tx     |-> WireTx(n, i),
     stdinW |-> <<>>,
     fwd    |-> <<>>]

\* The result of Pipeline::spawn(cmds, tx) with the processes behaving as progs
PipelineSpawn(cmds, progs) ==
    LET n == Len(cmds)
        f == FirstBad(cmds)
        started == IF n = 0 THEN 0 ELSE IF f = 0 THEN n ELSE f - 1
        lastCh == IF f = 0 THEN n ELSE f
    IN  [ok     |-> n > 0 /\ f = 0,
         err    |-> IF n = 0 THEN "EmptyPipeline"
                    ELSE IF f = 0 THEN "" ELSE StageSpawnResult(cmds[f]).err,
         stages |-> [i \in 1..started |-> NewStage(cmds[i], i, n, progs[i])],
         chans  |-> [i \in 2..(IF n = 0 THEN 0 ELSE lastCh) |->
                        [buf |-> <<>>, rxOpen |-> (f = 0 \/ i < f)]]]

\* Stage<Head>::abort_if_running: the waiter is the forwarding task itself
Head_abort_if_running(t) ==
    IF t.waiter # "running" THEN t
    ELSE [t EXCEPT !.waiter = "aborted", !.outpc = "aborted", !.held = <<>>]

\* Stage<Pipe>::abort_if_running: the waiter is the task that joins the
\* stdin-feeding task and the forwarding task, both spawned on their own; a
\* JoinHandle that is dropped detaches its task.  The waiter is taken to have
\* been polled, so that both tasks exist when the abort comes.
Pipe_abort_if_running(t) ==
    IF t.waiter # "running" THEN t
    ELSE [t EXCEPT !.waiter = "aborted"]

\* A variant of abort_all that cancels nothing
abort_all_Noop(stages) == stages

\* Pipeline::abort_all on the stages of one pipeline
abort_all(stages) ==
    [i \in DOMAIN stages |->
        IF stages[i].kind = "Head" THEN Head_abort_if_running(stages[i])
        ELSE Pipe_abort_if_running(stages[i])]

\* The waiter of a stage ends when what it awaits has ended
Settle(t) ==
    IF t.waiter = "running" /\ t.outpc = "done" /\ t.inpc \in {"none", "done"}
    THEN [t EXCEPT !.waiter = "done"]
    ELSE t

OutRunning(t) == t.outpc \in {"select", "send"}
InRunning(t) == t.inpc = "recv"

-----------------------------------------------------------------------------
(* The registry: EditorMap and the keys *)

\* Ord for EditorIndex: a/b against c/d by a*d against b*c
KeyLess(a, b) == a[1] * b[2] < a[2] * b[1]
KeyEq(a, b) == a[1] * b[2] = a[2] * b[1]

\* A variant of the mediant that adds the numerators only
mediant_NumeratorsOnly(a, b) == <<a[1] + b[1], a[2]>>

mediant(a, b) == <<a[1] + b[1], a[2] + b[2]>>

Keys(m) == {m[i].key : i \in DOMAIN m}
Entry(m, k) == m[CHOOSE i \in DOMAIN m : m[i].key = k]
contains_key(m, k) == \E i \in DOMAIN m : KeyEq(m[i].key, k)

\* BTreeMap::insert: an entry whose key compares equal keeps its key and
\* takes the new value; otherwise the entry goes to its place in the order.
MapInsert(m, k, v) ==
    IF \E i \in DOMAIN m : KeyEq(m[i].key, k)
    THEN [i \in DOMAIN m |->
            IF KeyEq(m[i].key, k) THEN [v EXCEPT !.key = m[i].key] ELSE m[i]]
    ELSE LET below == Cardinality({i \in DOMAIN m : KeyLess(m[i].key, k)}) IN
         SubSeq(m, 1, below) \o <<[v EXCEPT !.key = k]>> \o SubSeq(m, below + 1, Len(m))

is_last(m, k) == m # <<>> /\ m[Len(m)].key = k

Pos(m, k) == CHOOSE i \in DOMAIN m : m[i].key = k

\* self.0.keys() and its .rev()
KeySeq(m) == [i \in DOMAIN m |-> m[i].key]
Reverse(seq) == [i \in DOMAIN seq |-> seq[Len(seq) + 1 - i]]

\* .skip_while(|k| !(k.0 == index.0 && k.1 == index.1))
RECURSIVE SkipWhileNot(_, _)
SkipWhileNot(keys, k) ==
    IF keys = <<>> THEN <<>>
    ELSE IF Head(keys) = k THEN keys
    ELSE SkipWhileNot(Tail(keys), k)

\* .skip(1)
Skip1(keys) == IF keys = <<>> THEN <<>> ELSE Tail(keys)

\* A variant of the walk that does not count
RECURSIVE SeekWalkToEnd(_, _, _)
SeekWalkToEnd(iter, cur, remaining) ==
    IF iter = <<>> THEN cur
    ELSE SeekWalkToEnd(Tail(iter), Head(iter), remaining)

\* while let Some(next) = iter.next() { if remaining == 0 { break } .. }
RECURSIVE SeekWalk(_, _, _)
SeekWalk(iter, cur, remaining) ==
    IF iter = <<>> THEN cur
    ELSE IF remaining = 0 THEN cur
    ELSE SeekWalk(Tail(iter), Head(iter), remaining - 1)

\* seek_index bails when the map does not contain the key
seek_index_Err(m, k) == ~contains_key(m, k)

\* seek_index, the Ok value: the key the walk stops at
seek_index(m, k, dir, dist) ==
    LET keys == IF dir = "Up" THEN Reverse(KeySeq(m)) ELSE KeySeq(m) IN
    SeekWalk(Skip1(SkipWhileNot(keys, k)), k, dist)

\* shift_index: Err only when it calls seek_index
shift_index_Err(m, k, up, down) == up # down /\ seek_index_Err(m, k)

shift_index(m, k, up, down) ==
    IF up < down THEN seek_index(m, k, "Down", down - up)
    ELSE IF up > down THEN seek_index(m, k, "Up", up - down)
    ELSE k

\* A variant of new_index that takes the successor itself
new_index_Successor(m, k) ==
    IF is_last(m, k) THEN <<k[1] + 1, k[2]>>
    ELSE seek_index(m, k, "Down", 1)

new_index(m, k) ==
    IF is_last(m, k) THEN <<k[1] + 1, k[2]>>
    ELSE mediant(k, seek_index(m, k, "Down", 1))

\* BTreeMap::remove: the entry whose key compares equal goes
MapRemove(m, k) == SelectSeq(m, LAMBDA e : ~KeyEq(e.key, k))

\* A variant of remove_editor that leaves the focus on the removed key
remove_editor_KeepFocus(m, cur) ==
    IF cur = HEAD_INDEX THEN [index |-> cur, map |-> m]
    ELSE [index |-> cur, map |-> MapRemove(m, cur)]

\* A variant of remove_editor that moves the focus to the next key
remove_editor_Successor(m, cur) ==
    IF cur = HEAD_INDEX THEN [index |-> cur, map |-> m]
    ELSE [index |-> seek_index(m, cur, "Down", 1), map |-> MapRemove(m, cur)]

\* Prompt::remove_editor: the key before the removed one and the map left
remove_editor(m, cur) ==
    IF cur = HEAD_INDEX THEN [index |-> cur, map |-> m]
    ELSE [index |-> seek_index(m, cur, "Up", 1), map |-> MapRemove(m, cur)]

\* The loop of the Ctrl+D handler: times removals, stopped at the head editor
RECURSIVE RemoveLoop(_, _, _)
RemoveLoop(m, prev, times) ==
    IF times = 0 \/ prev = HEAD_INDEX THEN [map |-> m, index |-> prev]
    ELSE LET r == remove_editor(m, prev) IN RemoveLoop(r.map, r.index, times - 1)

\* A variant of pop_editors that does not look for the head editor
RECURSIVE pop_editors_NoGuard(_, _)
pop_editors_NoGuard(m, times) ==
    IF times = 0 \/ m = <<>> THEN [map |-> m, popped |-> <<>>]
    ELSE LET r == pop_editors_NoGuard(SubSeq(m, 1, Len(m) - 1), times - 1) IN
         [map |-> r.map, popped |-> <<m[Len(m)].key>> \o r.popped]

\* Prompt::pop_editors: pop_last times times, stopped when the head editor is
\* the last one; the map left and the keys popped
RECURSIVE pop_editors(_, _)
pop_editors(m, times) ==
    IF times = 0 THEN [map |-> m, popped |-> <<>>]
    ELSE IF m # <<>> /\ m[Len(m)].key = HEAD_INDEX THEN [map |-> m, popped |-> <<>>]
    ELSE LET r == pop_editors(SubSeq(m, 1, Len(m) - 1), times - 1) IN
         [map |-> r.map, popped |-> <<m[Len(m)].key>> \o r.popped]

\* A variant of the count that forgets the two other panes
ShrinkTimes_NoReserve(n, h) == IF n < h THEN 0 ELSE n - h

\* (editors.len() + 2).saturating_sub(height)
ShrinkTimes(n, h) == IF n + PaneReserve < h THEN 0 ELSE n + PaneReserve - h

NewEditor == [key |-> HEAD_INDEX, ignore |-> FALSE, text |-> <<>>]

\* A variant of insert_editor that always appends after the last editor
insert_editor_AtTail(m, cur) ==
    LET k == <<m[Len(m)].key[1] + 1, m[Len(m)].key[2]>> IN
    [index |-> k, map |-> MapInsert(m, k, NewEditor)]

\* Prompt::insert_editor: the new key and the map with the new editor
insert_editor(m, cur) ==
    LET k == new_index(m, cur) IN [index |-> k, map |-> MapInsert(m, k, NewEditor)]

\* A variant that keeps one row less free
MaxEditorsReserveOne(h) == IF h < 1 THEN 0 ELSE h - 1

\* Prompt::switch_theme on the set of the dimmed keys: the key to defocus,
\* when one is given (a set of one key, the empty set for None), gets
\* Attribute::Dim and the focused key loses it; nothing when both are the same.
switch_theme(dm, defocus, focus) ==
    IF defocus = {focus} THEN dm ELSE (dm \cup defocus) \ {focus}

\* height.saturating_sub(2)
MaxEditors(h) == IF h < PaneReserve THEN 0 ELSE h - PaneReserve

\* The loop of the Ctrl+B handler: times inserts, stopped by a full screen
RECURSIVE InsertLoop(_, _, _, _)
InsertLoop(m, cur, times, h) ==
    IF times = 0 THEN [map |-> m, index |-> cur, full |-> FALSE]
    ELSE IF Len(m) >= MaxEditors(h) THEN [map |-> m, index |-> cur, full |-> TRUE]
    ELSE LET r == insert_editor(m, cur) IN InsertLoop(r.map, r.index, times - 1, h)

\* A variant of the first filter that keeps the ignored editors
RECURSIVE AllTexts(_)
AllTexts(m) ==
    IF m = <<>> THEN <<>> ELSE <<Head(m).text>> \o AllTexts(Tail(m))

\* Prompt::get_all_texts: the texts of the editors in key order, without the
\* ignored editors and without the blank texts
RECURSIVE NotIgnoredTexts(_)
NotIgnoredTexts(m) ==
    IF m = <<>> THEN <<>>
    ELSE IF ~Head(m).ignore THEN <<Head(m).text>> \o NotIgnoredTexts(Tail(m))
    ELSE NotIgnoredTexts(Tail(m))

RECURSIVE NonBlank(_)
NonBlank(texts) ==
    IF texts = <<>> THEN <<>>
    ELSE IF Trim(Head(texts)) # <<>> THEN <<Head(texts)>> \o NonBlank(Tail(texts))
    ELSE NonBlank(Tail(texts))

get_all_texts(m) == NonBlank(NotIgnoredTexts(m))

\* The registry lock is held across an await only by the Ctrl+B handler,
\* while it sends its notification.
EditorsLocked == ppc = "notify" \/ elock # "none"

-----------------------------------------------------------------------------
(* Queue::push *)

\* Queue::new: an empty buffer under a cursor at position 0.
NewQueue == [contents |-> <<>>, position |-> 0]

\* State::reset variant that keeps the scroll cursor where it was.
reset_KeepPosition == [contents |-> <<>>, position |-> position]

\* State::reset: self.queue = Queue::new(self.capacity)
reset == NewQueue

\* State::shift: Cursor::shift(backward, forward) on the buffer's cursor. The
\* move is refused when it would pass the first line or reach the length of
\* the buffer; it is judged on the buffer, whatever the height of the pane.
shift(q, pos, up, down) ==
    IF up > pos
    THEN [ret |-> FALSE, position |-> pos]
    ELSE IF (pos - up) + down < Len(q)
         THEN [ret |-> TRUE, position |-> (pos - up) + down]
         ELSE [ret |-> FALSE, position |-> pos]

\* create_pane: the lines at indices i with position <= i < position + height.
create_pane(q, pos, height) ==
    SubSeq(q, pos + 1, IF pos + height < Len(q) THEN pos + height ELSE Len(q))

QueuePush(q, item) ==
    (IF Len(q) > QueueCapacity THEN Tail(q) ELSE q) \o <<item>>

-----------------------------------------------------------------------------
(* Aggregated operations (operator.rs: EventStream) *)

Op(k, times, chars) == [k |-> k, times |-> times, chars |-> chars]

EnterOp == Op("Enter", 1, <<>>)
CtrlCOp == Op("CtrlC", 1, <<>>)
CtrlBOp(times) == Op("CtrlB", times, <<>>)
CtrlXOp(times) == Op("CtrlX", times, <<>>)
CtrlDOp(times) == Op("CtrlD", times, <<>>)
CtrlUOp == Op("CtrlU", 1, <<>>)
KeyOp(chars) == Op("Key", 1, chars)

KeyOps == {KeyOp(<<c>>) : c \in Chars}
EditOps == KeyOps \cup {CtrlUOp}
RegistryOps == EditOps \cup {CtrlBOp(1), CtrlXOp(1), CtrlXOp(2)}
AllOps == RegistryOps \cup {EnterOp, CtrlCOp}

\* edit(): the text after the op (the cursor stays at the end of the text)
edit(op, text) ==
    CASE op.k = "Key" -> text \o op.chars
      [] op.k = "CtrlU" -> <<>>
      [] OTHER -> text

\* What the processes write: one script for stdout, one for stderr
Prog(out, err) == [out |-> out, err |-> err]
L(k) == <<k, "ok">>
B(k) == <<k, "bad">>

-----------------------------------------------------------------------------
(* Channels *)

\* A variant of the channels without a capacity
HasRoomAlways(ch, cap) == TRUE

\* mpsc send: the item joins the queue when there is room
HasRoom(ch, cap) == Len(ch) < cap

\* broadcast::channel(1): a send replaces the retained item; a receiver that
\* had not taken the replaced item is told Lagged by its next recv.
BroadcastSend(b, op) ==
    [msgs |-> <<op>>, lagged |-> (b.lagged \/ b.msgs # <<>>)]

\* The place of an op in the order the aggregator produced the ops, for the
\* ops that carry one (0 for the others).
Serial(op) == IF "n" \in DOMAIN op THEN op.n ELSE 0

\* The reset receiver: Lagged and Ok both complete the recv of output_stream
ResetSend(n) == IF n >= 2 THEN 2 ELSE n + 1

-----------------------------------------------------------------------------
(* The initial state: main() up to the dispatch loop *)

InitHeights == {4}

\* The state with the batches ev waiting in the event channel, the registry
\* reg with its last editor focused and a terminal of height h
BootWith(ev, reg, h, keys) ==
    /\ eventCh = ev
    /\ nOps = Len(ev)
    /\ nKeys = 0
    /\ batch = <<>>
    /\ dpc = "idle"
    /\ cur_pipeline = 0
    /\ subLog = <<>>
    /\ subPrev = 0
    /\ bcast = [msgs |-> <<>>, lagged |-> FALSE]
    /\ resetPending = 0
    /\ editors = reg
    /\ cur_index = reg[Len(reg)].key
    /\ terminal_shape = h
    /\ ppc = "recv"
    /\ notifyCh = <<>>
    /\ notifyShown = "None"
    /\ outputCh = <<>>
    /\ queue = <<>>
    /\ pipelines = <<>>
    /\ task = <<>>
    /\ chan = <<>>
    /\ buf = <<>>
    /\ drained = <<>>
    /\ nEvents = 0
    /\ keyArgs = keys
    /\ keyRet = <<>>
    /\ shifted = <<>>
    /\ removed = <<>>
    /\ shrunk = <<>>
    /\ position = NewQueue.position
    /\ last_modified_time = 0
    /\ last_render_time = 0
    /\ clock = 0
    /\ pushed = <<>>
    /\ nScrolls = 0
    /\ dirty = FALSE
    /\ draws = 0
    /\ lastShift = <<>>
    /\ lastReset = <<>>
    /\ obcast = [msgs |-> <<>>, lagged |-> FALSE]
    /\ handled = 0
    /\ ohandled = 0
    /\ signalled = <<>>
    /\ dimmed = {reg[i].key : i \in DOMAIN reg} \ {reg[Len(reg)].key}
    /\ panes = {reg[i].key : i \in DOMAIN reg}
    /\ stale = {}
    /\ elock = "none"
    /\ rlock = "none"
    /\ hnd = <<>>
    /\ npc = "recv"

Boot(ev, reg, h) == BootWith(ev, reg, h, <<HEAD_INDEX, HEAD_INDEX>>)

Init == \E h \in InitHeights : Boot(<<>>, <<NewEditor>>, h)

-----------------------------------------------------------------------------
(* Raw events (crossterm::event::Event) and EventOperator::operate *)

CharKey(ch, mods) == [t |-> "Key", code |-> "Char", ch |-> ch, mods |-> mods, kind |-> "Press"]
CodeKey(code) == [t |-> "Key", code |-> code, ch |-> "", mods |-> "NONE", kind |-> "Press"]
MouseEv(kind) == [t |-> "Mouse", kind |-> kind]
ResizeEv(w, h) == [t |-> "Resize", w |-> w, h |-> h]

\* The ops of EventStream that operate builds besides Buffer::Key
OtherOp(event, count) == [k |-> "Other", event |-> event, times |-> count, chars |-> <<>>]
VerticalCursorOp(d) == [k |-> "VerticalCursor", up |-> d[1], down |-> d[2]]
HorizontalCursorOp(d) == [k |-> "HorizontalCursor", left |-> d[1], right |-> d[2]]
VerticalScrollOp(d) == [k |-> "VerticalScroll", up |-> d[1], down |-> d[2]]
HorizontalScrollOp(d) == [k |-> "HorizontalScroll", left |-> d[1], right |-> d[2]]
ResizeOp(w, h) == [k |-> "Resize", w |-> w, h |-> h]

\* Option<char>: <<>> is None
extract_char(e) ==
    IF e.t = "Key" /\ e.code = "Char" /\ e.mods \in {"NONE", "SHIFT"} /\ e.kind = "Press"
    THEN <<e.ch>> ELSE <<>>

\* Option<(usize, usize)>: <<>> is None
detect_vertical_direction(e) ==
    IF e.t = "Key" /\ e.code = "Up" THEN <<1, 0>>
    ELSE IF e.t = "Key" /\ e.code = "Down" THEN <<0, 1>>
    ELSE <<>>

detect_vertical_scroll(e) ==
    IF e.t = "Mouse" /\ e.kind = "ScrollUp" THEN <<1, 0>>
    ELSE IF e.t = "Mouse" /\ e.kind = "ScrollDown" THEN <<0, 1>>
    ELSE <<>>

detect_horizontal_direction(e) ==
    IF e.t = "Key" /\ e.code = "Left" THEN <<1, 0>>
    ELSE IF e.t = "Key" /\ e.code = "Right" THEN <<0, 1>>
    ELSE <<>>

detect_horizontal_scroll(e) ==
    IF e.t = "Mouse" /\ e.kind = "ScrollLeft" THEN <<1, 0>>
    ELSE IF e.t = "Mouse" /\ e.kind = "ScrollRight" THEN <<0, 1>>
    ELSE <<>>

\* The locals of operate before its loop
OperateStart ==
    [result |-> <<>>,
     current_chars |-> <<>>,
     current_vertical |-> <<0, 0>>,
     current_horizontal |-> <<0, 0>>,
     current_vertical_scroll |-> <<0, 0>>,
     current_horizontal_scroll |-> <<0, 0>>,
     current_others |-> <<>>,
     last_resize |-> <<>>,
     resize_index |-> -1]

flush_char_buffer(st) ==
    IF st.current_chars # <<>>
    THEN [st EXCEPT !.result = Append(@, KeyOp(st.current_chars)), !.current_chars = <<>>]
    ELSE st

flush_vertical_buffer(st) ==
    IF st.current_vertical # <<0, 0>>
    THEN [st EXCEPT !.result = Append(@, VerticalCursorOp(st.current_vertical)),
                    !.current_vertical = <<0, 0>>]
    ELSE st

flush_horizontal_buffer(st) ==
    IF st.current_horizontal # <<0, 0>>
    THEN [st EXCEPT !.result = Append(@, HorizontalCursorOp(st.current_horizontal)),
                    !.current_horizontal = <<0, 0>>]
    ELSE st

flush_vertical_scroll_buffer(st) ==
    IF st.current_vertical_scroll # <<0, 0>>
    THEN [st EXCEPT !.result = Append(@, VerticalScrollOp(st.current_vertical_scroll)),
                    !.current_vertical_scroll = <<0, 0>>]
    ELSE st

flush_horizontal_scroll_buffer(st) ==
    IF st.current_horizontal_scroll # <<0, 0>>
    THEN [st EXCEPT !.result = Append(@, HorizontalScrollOp(st.current_horizontal_scroll)),
                    !.current_horizontal_scroll = <<0, 0>>]
    ELSE st

flush_others_buffer(st) ==
    IF st.current_others # <<>>
    THEN [st EXCEPT !.result = Append(@, OtherOp(st.current_others[1], st.current_others[2])),
                    !.current_others = <<>>]
    ELSE st

flush_non_char_buffers(st) ==
    flush_others_buffer(
      flush_horizontal_scroll_buffer(
        flush_vertical_scroll_buffer(
          flush_horizontal_buffer(
            flush_vertical_buffer(st)))))

flush_all_buffers(st) == flush_non_char_buffers(flush_char_buffer(st))

Plus(a, b) == <<a[1] + b[1], a[2] + b[2]>>

\* A variant of the Resize arm that keeps the first size it saw
ResizeArmKeepFirst(st, e) ==
    LET f == flush_all_buffers(st) IN
    [f EXCEPT !.last_resize = IF st.last_resize = <<>> THEN <<e.w, e.h>> ELSE @,
              !.resize_index = Len(f.result)]

\* A variant of the Resize arm that keeps the first index it recorded
ResizeArmFirstIndex(st, e) ==
    LET f == flush_all_buffers(st) IN
    [f EXCEPT !.last_resize = <<e.w, e.h>>,
              !.resize_index = IF st.resize_index = -1 THEN Len(f.result) ELSE @]

\* The Resize arm of the match
ResizeArm(st, e) ==
    LET f == flush_all_buffers(st) IN
    [f EXCEPT !.last_resize = <<e.w, e.h>>, !.resize_index = Len(f.result)]

\* A variant of the character arm that closes the run at every character
CharArmNoRun(st, ch) ==
    [flush_all_buffers(st) EXCEPT !.current_chars = <<ch>>]

\* A variant of the character arm that flushes nothing
CharArmNoFlush(st, ch) ==
    [st EXCEPT !.current_chars = Append(@, ch)]

\* The character arm
CharArm(st, ch) ==
    [flush_non_char_buffers(st) EXCEPT !.current_chars = Append(@, ch)]

\* A variant of the vertical cursor arm that leaves a character run open
VerticalArmNoFlush(st, d) ==
    LET f == flush_others_buffer(
               flush_horizontal_scroll_buffer(
                 flush_vertical_scroll_buffer(
                   flush_horizontal_buffer(st))))
    IN  [f EXCEPT !.current_vertical = Plus(@, d)]

\* The vertical cursor arm
VerticalArm(st, d) ==
    LET f == flush_others_buffer(
               flush_horizontal_scroll_buffer(
                 flush_vertical_scroll_buffer(
                   flush_horizontal_buffer(
                     flush_char_buffer(st)))))
    IN  [f EXCEPT !.current_vertical = Plus(@, d)]

\* The vertical scroll arm
VerticalScrollArm(st, d) ==
    LET f == flush_others_buffer(
               flush_horizontal_scroll_buffer(
                 flush_horizontal_buffer(
                   flush_vertical_buffer(
                     flush_char_buffer(st)))))
    IN  [f EXCEPT !.current_vertical_scroll = Plus(@, d)]

\* The horizontal cursor arm
\* A variant of the horizontal cursor arm that keeps the last move only
HorizontalArmOverwrite(st, d) ==
    LET f == flush_others_buffer(
               flush_horizontal_scroll_buffer(
                 flush_vertical_scroll_buffer(
                   flush_vertical_buffer(
                     flush_char_buffer(st)))))
    IN  [f EXCEPT !.current_horizontal = d]

HorizontalArm(st, d) ==
    LET f == flush_others_buffer(
               flush_horizontal_scroll_buffer(
                 flush_vertical_scroll_buffer(
                   flush_vertical_buffer(
                     flush_char_buffer(st)))))
    IN  [f EXCEPT !.current_horizontal = Plus(@, d)]

\* The horizontal scroll arm
HorizontalScrollArm(st, d) ==
    LET f == flush_others_buffer(
               flush_horizontal_buffer(
                 flush_vertical_scroll_buffer(
                   flush_vertical_buffer(
                     flush_char_buffer(st)))))
    IN  [f EXCEPT !.current_horizontal_scroll = Plus(@, d)]

\* A variant of the last arm that counts without comparing the events
OtherArmNoCompare(st, e) ==
    LET f == flush_horizontal_scroll_buffer(
               flush_horizontal_buffer(
                 flush_vertical_scroll_buffer(
                   flush_vertical_buffer(
                     flush_char_buffer(st)))))
    IN  IF f.current_others # <<>>
        THEN [f EXCEPT !.current_others = <<@[1], @[2] + 1>>]
        ELSE [f EXCEPT !.current_others = <<e, 1>>]

\* The last arm: any other event
OtherArm(st, e) ==
    LET f == flush_horizontal_scroll_buffer(
               flush_horizontal_buffer(
                 flush_vertical_scroll_buffer(
                   flush_vertical_buffer(
                     flush_char_buffer(st)))))
    IN  IF f.current_others # <<>> /\ f.current_others[1] = e
        THEN [f EXCEPT !.current_others = <<@[1], @[2] + 1>>]
        ELSE [flush_others_buffer(f) EXCEPT !.current_others = <<e, 1>>]

\* The body of the for loop of operate
OperateEvent(st, e) ==
    IF e.t = "Resize" THEN ResizeArm(st, e)
    ELSE IF extract_char(e) # <<>> THEN CharArm(st, extract_char(e)[1])
    ELSE IF detect_vertical_direction(e) # <<>>
         THEN VerticalArm(st, detect_vertical_direction(e))
    ELSE IF detect_vertical_scroll(e) # <<>>
         THEN VerticalScrollArm(st, detect_vertical_scroll(e))
    ELSE IF detect_horizontal_direction(e) # <<>>
         THEN HorizontalArm(st, detect_horizontal_direction(e))
    ELSE IF detect_horizontal_scroll(e) # <<>>
         THEN HorizontalScrollArm(st, detect_horizontal_scroll(e))
    ELSE OtherArm(st, e)

\* The locals of operate after the loop has taken the events
RECURSIVE OperateLoop(_, _)
OperateLoop(st, events) ==
    IF events = <<>> THEN st
    ELSE OperateLoop(OperateEvent(st, Head(events)), Tail(events))

\* Vec::insert
InsertAt(seq, idx, x) ==
    SubSeq(seq, 1, idx) \o <<x>> \o SubSeq(seq, idx + 1, Len(seq))

\* EventOperator::operate
operate(events) ==
    LET st == flush_all_buffers(OperateLoop(OperateStart, events)) IN
    IF st.last_resize # <<>> /\ st.resize_index # -1
    THEN InsertAt(st.result, st.resize_index, ResizeOp(st.last_resize[1], st.last_resize[2]))
    ELSE st.result

\* The raw events a batch is made of
RawEvents ==
    {CharKey("a", "NONE"), CharKey("B", "SHIFT"),
     CharKey("f", "CONTROL"), CharKey("d", "CONTROL"),
     CodeKey("Up"), CodeKey("Down"), CodeKey("Left"),
     MouseEv("ScrollUp"), MouseEv("ScrollLeft"),
     ResizeEv(1, 1), ResizeEv(2, 2)}

-----------------------------------------------------------------------------
(* EventOperator::spawn: a tick sends the batch to the dispatcher *)

Running == dpc # "exited"

\* The submissions asked for and not yet handled
EntersInFlight ==
    Cardinality({i \in DOMAIN eventCh : eventCh[i][1].k = "Enter"})
    + (IF batch # <<>> /\ Head(batch).k = "Enter" THEN 1 ELSE 0)

AggregatorTick(ops) ==
    /\ Running
    /\ nOps < MaxOps
    /\ HasRoom(eventCh, EventCap)
    /\ \E op \in ops :
        /\ op.k = "Key" => nKeys + Len(op.chars) <= MaxKeys
        /\ op.k = "Enter" => Len(pipelines) + EntersInFlight < MaxSpawns
        /\ eventCh' = Append(eventCh, <<op>>)
        /\ nKeys' = IF op.k = "Key" THEN nKeys + Len(op.chars) ELSE nKeys
    /\ nOps' = nOps + 1
    /\ UNCHANGED <<batch, dispVars, bcast, resetPending, promptVars, notifyCh,
                   notifyShown, outputCh, queue, pipeVars>>
    /\ UNCHANGED <<aggVars, keyVars, outVars, dlvVars>>
    /\ UNCHANGED <<viewVars, taskVars>>

\* Some(Ok(event)) = event_stream.next(): buf.push(event)
AggregatorPush ==
    /\ Running
    /\ nEvents < MaxEvents
    /\ \E e \in RawEvents : buf' = Append(buf, e)
    /\ nEvents' = nEvents + 1
    /\ UNCHANGED <<eventCh, nOps, nKeys, batch, dispVars, bcast, resetPending,
                   promptVars, notifyCh, notifyShown, outputCh, queue, pipeVars,
                   drained, keyVars, outVars, dlvVars>>
    /\ UNCHANGED <<viewVars, taskVars>>

\* interval.tick(): tx.send(Self::operate(buf.drain(..))).await
AggregatorDrain ==
    /\ Running
    /\ HasRoom(eventCh, EventCap)
    /\ eventCh' = Append(eventCh, operate(buf))
    /\ drained' = buf
    /\ buf' = <<>>
    /\ UNCHANGED <<nOps, nKeys, batch, dispVars, bcast, resetPending, promptVars,
                   notifyCh, notifyShown, outputCh, queue, pipeVars, nEvents,
                   keyVars, outVars, dlvVars>>
    /\ UNCHANGED <<viewVars, taskVars>>

-----------------------------------------------------------------------------
(* main: the dispatch loop *)

DispatchRecv ==
    /\ dpc = "idle"
    /\ batch = <<>>
    /\ eventCh # <<>>
    /\ batch' = Head(eventCh)
    /\ eventCh' = Tail(eventCh)
    /\ UNCHANGED <<nOps, nKeys, dispVars, bcast, resetPending, promptVars,
                   notifyCh, notifyShown, outputCh, queue, pipeVars>>
    /\ UNCHANGED <<aggVars, keyVars, outVars, dlvVars>>
    /\ UNCHANGED <<viewVars, taskVars>>

\* Ctrl+C: break 'outer, then the teardown after the loop
DispatchQuit ==
    /\ dpc = "idle"
    /\ batch # <<>>
    /\ Head(batch).k = "CtrlC"
    /\ dpc' = "exited"
    /\ batch' = <<>>
    /\ IF cur_pipeline # 0
       THEN /\ task' = [task EXCEPT ![cur_pipeline] = abort_all(@)]
            /\ pipelines' = [pipelines EXCEPT ![cur_pipeline].aborted = TRUE]
       ELSE UNCHANGED <<task, pipelines>>
    /\ UNCHANGED <<eventCh, nOps, nKeys, cur_pipeline, subLog, subPrev,
                   bcast, resetPending, promptVars, notifyCh, notifyShown,
                   outputCh, queue, chan>>
    /\ UNCHANGED <<aggVars, keyVars, outVars, dlvVars>>
    /\ UNCHANGED <<viewVars, taskVars>>

\* A variant of the loop over the batch that takes the ops from its back.
DispatchBroadcastFromBack ==
    /\ dpc = "idle"
    /\ batch # <<>>
    /\ batch[Len(batch)].k \notin {"CtrlC", "Enter"}
    /\ bcast' = BroadcastSend(bcast, batch[Len(batch)])
    /\ obcast' = BroadcastSend(obcast, batch[Len(batch)])
    /\ batch' = SubSeq(batch, 1, Len(batch) - 1)
    /\ UNCHANGED <<eventCh, nOps, nKeys, dispVars, resetPending, promptVars,
                   notifyCh, notifyShown, outputCh, queue, pipeVars>>
    /\ UNCHANGED <<aggVars, keyVars, outVars, handled, ohandled,
                   signalled>>
    /\ UNCHANGED <<viewVars, taskVars>>

\* Any other op: broadcast_event_tx.send(event)
DispatchBroadcast ==
    /\ dpc = "idle"
    /\ batch # <<>>
    /\ Head(batch).k \notin {"CtrlC", "Enter"}
    /\ bcast' = BroadcastSend(bcast, Head(batch))
    /\ obcast' = BroadcastSend(obcast, Head(batch))
    /\ batch' = Tail(batch)
    /\ UNCHANGED <<eventCh, nOps, nKeys, dispVars, resetPending, promptVars,
                   notifyCh, notifyShown, outputCh, queue, pipeVars>>
    /\ UNCHANGED <<aggVars, keyVars, outVars, handled, ohandled,
                   signalled>>
    /\ UNCHANGED <<viewVars, taskVars>>

\* A variant of the Enter handler that goes to the spawn at once
DispatchEnterNoAbort ==
    /\ dpc = "idle"
    /\ batch # <<>>
    /\ Head(batch).k = "Enter"
    /\ subPrev' = cur_pipeline
    /\ subLog' = <<>>
    /\ dpc' = "texts"
    /\ UNCHANGED <<eventCh, nOps, nKeys, batch, cur_pipeline, bcast, resetPending,
                   promptVars, notifyCh, notifyShown, outputCh, queue, pipeVars>>
    /\ UNCHANGED <<aggVars, keyVars, outVars, dlvVars>>
    /\ UNCHANGED <<viewVars, taskVars>>

\* Enter, first part: abort the current pipeline and signal the reset
DispatchEnter ==
    /\ dpc = "idle"
    /\ batch # <<>>
    /\ Head(batch).k = "Enter"
    /\ subPrev' = cur_pipeline
    /\ IF cur_pipeline # 0
       THEN /\ task' = [task EXCEPT ![cur_pipeline] = abort_all(@)]
            /\ pipelines' = [pipelines EXCEPT ![cur_pipeline].aborted = TRUE]
            /\ resetPending' = ResetSend(resetPending)
            /\ signalled' = Append(signalled, Len(pipelines))
            /\ subLog' = <<"abort", "reset">>
            /\ dpc' = "notifyNone"
       ELSE /\ subLog' = <<>>
            /\ dpc' = "texts"
            /\ UNCHANGED <<task, pipelines, resetPending, signalled>>
    /\ UNCHANGED <<eventCh, nOps, nKeys, batch, cur_pipeline, bcast,
                   promptVars, notifyCh, notifyShown, outputCh, queue, chan>>
    /\ UNCHANGED <<aggVars, keyVars, outVars, obcast, handled,
                   ohandled>>
    /\ UNCHANGED <<viewVars, taskVars>>

\* notify_tx.send(NotifyMessage::None).await
DispatchNotifyNone ==
    /\ dpc = "notifyNone"
    /\ HasRoom(notifyCh, NotifyCap)
    /\ notifyCh' = Append(notifyCh, "None")
    /\ subLog' = Append(subLog, "none")
    /\ dpc' = "texts"
    /\ UNCHANGED <<eventCh, nOps, nKeys, batch, cur_pipeline, subPrev,
                   bcast, resetPending, promptVars, notifyShown, outputCh, queue,
                   pipeVars>>
    /\ UNCHANGED <<aggVars, keyVars, outVars, dlvVars>>
    /\ UNCHANGED <<viewVars, taskVars>>

\* What the processes of n stages may write: one script pair for each stage
StageChoices(n, headProgs, pipeProgs) ==
    {f \in [1..n -> headProgs \cup pipeProgs] :
        \A i \in 1..n : f[i] \in IF i = 1 THEN headProgs ELSE pipeProgs}

\* Pipeline::spawn(prompt.get_all_texts().await, output_tx.clone())
DispatchSpawn(headProgs, pipeProgs) ==
    /\ dpc = "texts"
    /\ ~EditorsLocked
    /\ LET cmds == get_all_texts(editors) IN
       \E progs \in StageChoices(Len(cmds), headProgs, pipeProgs) :
         LET r == PipelineSpawn(cmds, progs)
             id == Len(pipelines) + 1
         IN  /\ pipelines' = Append(pipelines,
                    [ok |-> r.ok, err |-> r.err, cmds |-> cmds, aborted |-> FALSE])
             /\ task' = Append(task, r.stages)
             /\ chan' = Append(chan, r.chans)
             /\ IF r.ok
                THEN /\ cur_pipeline' = id
                     /\ subLog' = Append(subLog, "spawn_ok")
                     /\ dpc' = "idle"
                     /\ batch' = Tail(batch)
                ELSE /\ subLog' = Append(subLog, "spawn_err")
                     /\ dpc' = "notifyErr"
                     /\ UNCHANGED <<cur_pipeline, batch>>
    /\ UNCHANGED <<eventCh, nOps, nKeys, subPrev, bcast, resetPending, promptVars,
                   notifyCh, notifyShown, outputCh, queue>>
    /\ UNCHANGED <<aggVars, keyVars, outVars, dlvVars>>
    /\ UNCHANGED <<viewVars, taskVars>>

\* notify_tx.send(NotifyMessage::Error("Cannot spawn commands ..")).await
DispatchNotifyErr ==
    /\ dpc = "notifyErr"
    /\ HasRoom(notifyCh, NotifyCap)
    /\ notifyCh' = Append(notifyCh, "ErrSpawn")
    /\ subLog' = Append(subLog, "error")
    /\ dpc' = "idle"
    /\ batch' = Tail(batch)
    /\ UNCHANGED <<eventCh, nOps, nKeys, cur_pipeline, subPrev, bcast,
                   resetPending, promptVars, notifyShown, outputCh, queue, pipeVars>>
    /\ UNCHANGED <<aggVars, keyVars, outVars, dlvVars>>
    /\ UNCHANGED <<viewVars, taskVars>>

-----------------------------------------------------------------------------
(* Prompt::spawn: the registry loop *)

PromptReady ==
    /\ Running
    /\ ppc = "recv"
    /\ ~bcast.lagged
    /\ bcast.msgs # <<>>

\* rx.recv() answers Err(Lagged): the loop goes round
PromptLagged ==
    /\ Running
    /\ ppc = "recv"
    /\ bcast.lagged
    /\ bcast' = [bcast EXCEPT !.lagged = FALSE]
    /\ UNCHANGED <<eventCh, nOps, nKeys, batch, dispVars, resetPending, promptVars,
                   notifyCh, notifyShown, outputCh, queue, pipeVars>>
    /\ UNCHANGED <<aggVars, keyVars, outVars, dlvVars>>
    /\ UNCHANGED <<viewVars, taskVars>>

\* Ctrl+B: insert editors after the focused one
PromptInsert ==
    /\ PromptReady
    /\ Head(bcast.msgs).k = "CtrlB"
    /\ LET r == InsertLoop(editors, cur_index, Head(bcast.msgs).times, terminal_shape) IN
        /\ editors' = r.map
        /\ cur_index' = r.index
        /\ ppc' = IF r.full THEN "notify" ELSE "recv"
    /\ bcast' = [bcast EXCEPT !.msgs = <<>>]
    /\ handled' = Serial(Head(bcast.msgs))
    /\ UNCHANGED <<eventCh, nOps, nKeys, batch, dispVars, resetPending,
                   terminal_shape, notifyCh, notifyShown, outputCh, queue, pipeVars>>
    /\ UNCHANGED <<aggVars, keyVars, outVars, obcast,
                   ohandled, signalled>>
    /\ dimmed' = switch_theme(dimmed, {cur_index}, cur_index')
    /\ IF ppc' = "notify"
       THEN UNCHANGED <<panes, stale>>
       ELSE /\ panes' = panes \cup {cur_index} \cup (Keys(editors') \ Keys(editors))
            /\ stale' = panes' \ Keys(editors')
    /\ UNCHANGED taskVars

\* notify_tx.send(Error("Cannot create more editors")).await, the registry locked
PromptNotifySend ==
    /\ Running
    /\ ppc = "notify"
    /\ HasRoom(notifyCh, NotifyCap)
    /\ notifyCh' = Append(notifyCh, "ErrEditors")
    /\ ppc' = "recv"
    /\ UNCHANGED <<eventCh, nOps, nKeys, batch, dispVars, bcast, resetPending,
                   editors, cur_index, terminal_shape, notifyShown, outputCh, queue,
                   pipeVars>>
    /\ UNCHANGED <<aggVars, keyVars, outVars, dlvVars>>
    /\ panes' = panes \cup Keys(editors)
    /\ stale' = panes' \ Keys(editors)
    /\ UNCHANGED <<dimmed, taskVars>>

\* A variant of the Ctrl+X handler that does not look at the count
PromptToggleAlways ==
    /\ PromptReady
    /\ Head(bcast.msgs).k = "CtrlX"
    /\ editors' = [editors EXCEPT ![Pos(editors, cur_index)].ignore = ~@]
    /\ bcast' = [bcast EXCEPT !.msgs = <<>>]
    /\ handled' = Serial(Head(bcast.msgs))
    /\ UNCHANGED <<eventCh, nOps, nKeys, batch, dispVars, resetPending, cur_index,
                   terminal_shape, ppc, notifyCh, notifyShown, outputCh, queue,
                   pipeVars>>
    /\ UNCHANGED <<aggVars, keyVars, outVars, obcast,
                   ohandled, signalled>>
    /\ panes' = panes \cup {cur_index}
    /\ stale' = panes' \ Keys(editors')
    /\ UNCHANGED <<dimmed, taskVars>>

\* Ctrl+X: an odd repeat count flips the ignore flag of the focused editor
PromptToggle ==
    /\ PromptReady
    /\ Head(bcast.msgs).k = "CtrlX"
    /\ editors' = IF Head(bcast.msgs).times % 2 # 0
                  THEN [editors EXCEPT ![Pos(editors, cur_index)].ignore = ~@]
                  ELSE editors
    /\ bcast' = [bcast EXCEPT !.msgs = <<>>]
    /\ handled' = Serial(Head(bcast.msgs))
    /\ UNCHANGED <<eventCh, nOps, nKeys, batch, dispVars, resetPending, cur_index,
                   terminal_shape, ppc, notifyCh, notifyShown, outputCh, queue,
                   pipeVars>>
    /\ UNCHANGED <<aggVars, keyVars, outVars, obcast,
                   ohandled, signalled>>
    /\ panes' = IF editors' # editors THEN panes \cup {cur_index} ELSE panes
    /\ stale' = panes' \ Keys(editors')
    /\ UNCHANGED <<dimmed, taskVars>>

\* Ctrl+D: remove the focused editor and the ones before it, never the head
PromptRemove ==
    /\ PromptReady
    /\ Head(bcast.msgs).k = "CtrlD"
    /\ LET r == RemoveLoop(editors, cur_index, Head(bcast.msgs).times) IN
        /\ editors' = r.map
        /\ cur_index' = r.index
        /\ removed' = [map |-> editors, index |-> cur_index,
                       times |-> Head(bcast.msgs).times,
                       after |-> editors', next |-> cur_index']
    /\ bcast' = [bcast EXCEPT !.msgs = <<>>]
    /\ handled' = Serial(Head(bcast.msgs))
    /\ UNCHANGED <<eventCh, nOps, nKeys, batch, dispVars, resetPending,
                   terminal_shape, ppc, notifyCh, notifyShown, outputCh, queue,
                   pipeVars>>
    /\ UNCHANGED <<aggVars, keyArgs, keyRet, shifted, shrunk, outVars, obcast,
                   ohandled, signalled>>
    /\ dimmed' = switch_theme(dimmed \cap Keys(editors'), {}, cur_index')
    /\ panes' = (panes \ (Keys(editors) \ Keys(editors'))) \cup {cur_index'}
    /\ stale' = panes' \ Keys(editors')
    /\ UNCHANGED taskVars

\* VerticalCursor(up, down): shift_index(..).unwrap() moves the focus
PromptCursor ==
    /\ PromptReady
    /\ Head(bcast.msgs).k = "VerticalCursor"
    /\ editors' = editors
    /\ LET op == Head(bcast.msgs) IN
        IF shift_index_Err(editors, cur_index, op.up, op.down)
        THEN /\ ppc' = "panicked"
             /\ UNCHANGED <<cur_index, shifted>>
        ELSE /\ cur_index' = shift_index(editors, cur_index, op.up, op.down)
             /\ shifted' = [map |-> editors, index |-> cur_index, up |-> op.up,
                            down |-> op.down, next |-> cur_index', after |-> editors']
             /\ ppc' = ppc
    /\ bcast' = [bcast EXCEPT !.msgs = <<>>]
    /\ handled' = Serial(Head(bcast.msgs))
    /\ UNCHANGED <<eventCh, nOps, nKeys, batch, dispVars, resetPending,
                   terminal_shape, notifyCh, notifyShown, outputCh, queue,
                   pipeVars>>
    /\ UNCHANGED <<aggVars, keyArgs, keyRet, removed, shrunk, outVars, obcast,
                   ohandled, signalled>>
    /\ IF ppc' = "panicked"
       THEN UNCHANGED viewVars
       ELSE /\ dimmed' = switch_theme(dimmed, {cur_index}, cur_index')
            /\ panes' = panes \cup {cur_index, cur_index'}
            /\ stale' = panes' \ Keys(editors')
    /\ UNCHANGED taskVars

\* Debounce::Resize: the shape is recorded; a height too small for the
\* editors pops the last ones, gives their keys to the renderer to remove
\* and moves the focus to the head editor
PromptResize ==
    /\ PromptReady
    /\ Head(bcast.msgs).k = "Resize"
    /\ terminal_shape' = Head(bcast.msgs).h
    /\ LET h == Head(bcast.msgs).h
           r == pop_editors(editors, ShrinkTimes(Len(editors), h))
       IN  IF h < Len(editors) + PaneReserve
           THEN /\ editors' = r.map
                /\ cur_index' = HEAD_INDEX
                /\ shrunk' = [map |-> editors, index |-> cur_index, height |-> h,
                              after |-> editors', next |-> cur_index',
                              panes |-> r.popped]
           ELSE /\ UNCHANGED <<editors, cur_index>>
                /\ shrunk' = [map |-> editors, index |-> cur_index, height |-> h,
                              after |-> editors', next |-> cur_index',
                              panes |-> <<>>]
    /\ bcast' = [bcast EXCEPT !.msgs = <<>>]
    /\ handled' = Serial(Head(bcast.msgs))
    /\ UNCHANGED <<eventCh, nOps, nKeys, batch, dispVars, resetPending,
                   ppc, notifyCh, notifyShown, outputCh, queue, pipeVars>>
    /\ UNCHANGED <<aggVars, keyArgs, keyRet, shifted, removed, outVars, obcast,
                   ohandled, signalled>>
    /\ dimmed' = IF terminal_shape' < Len(editors) + PaneReserve
                  THEN switch_theme(dimmed \cap Keys(editors'), {}, HEAD_INDEX)
                  ELSE dimmed
    /\ panes' = (panes \ (Keys(editors) \ Keys(editors'))) \cup Keys(editors')
    /\ stale' = panes' \ Keys(editors')
    /\ UNCHANGED taskVars

\* Any other op: edit() on the focused editor
PromptEdit ==
    /\ PromptReady
    /\ Head(bcast.msgs).k \notin {"CtrlB", "CtrlD", "CtrlX", "VerticalCursor", "Resize"}
    /\ editors' = [editors EXCEPT ![Pos(editors, cur_index)].text =
                        edit(Head(bcast.msgs), @)]
    /\ bcast' = [bcast EXCEPT !.msgs = <<>>]
    /\ handled' = Serial(Head(bcast.msgs))
    /\ UNCHANGED <<eventCh, nOps, nKeys, batch, dispVars, resetPending, cur_index,
                   terminal_shape, ppc, notifyCh, notifyShown, outputCh, queue,
                   pipeVars>>
    /\ UNCHANGED <<aggVars, keyVars, outVars, obcast,
                   ohandled, signalled>>
    /\ panes' = panes \cup {cur_index}
    /\ stale' = panes' \ Keys(editors')
    /\ UNCHANGED <<dimmed, taskVars>>

-----------------------------------------------------------------------------
(* notify_stream and output_stream *)

NotifyRecv ==
    /\ Running
    /\ notifyCh # <<>>
    /\ notifyShown' = Head(notifyCh)
    /\ notifyCh' = Tail(notifyCh)
    /\ UNCHANGED <<eventCh, nOps, nKeys, batch, dispVars, bcast, resetPending,
                   promptVars, outputCh, queue, pipeVars>>
    /\ UNCHANGED <<aggVars, keyVars, outVars, dlvVars>>
    /\ rlock = "none"
    /\ stale' = panes \ Keys(editors)
    /\ UNCHANGED <<dimmed, panes, taskVars>>

\* the reset branch of the select!
OutputReset ==
    /\ Running
    /\ resetPending > 0
    /\ resetPending' = resetPending - 1
    /\ queue' = reset.contents
    /\ position' = reset.position
    /\ last_modified_time' = clock
    /\ last_render_time' = clock
    /\ pushed' = <<>>
    /\ dirty' = FALSE
    /\ lastReset' = [len |-> Len(queue), position |-> position,
                     n |-> IF lastReset = <<>> THEN 1 ELSE lastReset.n + 1]
    /\ UNCHANGED <<eventCh, nOps, nKeys, batch, dispVars, bcast, promptVars,
                   notifyCh, notifyShown, outputCh, pipeVars>>
    /\ UNCHANGED <<aggVars, keyVars, clock, nScrolls, draws, lastShift,
                   dlvVars>>
    /\ rlock = "none"
    /\ stale' = panes \ Keys(editors)
    /\ UNCHANGED <<dimmed, panes, taskVars>>

\* the stdout_stream branch of the select!
OutputLine ==
    /\ Running
    /\ outputCh # <<>>
    /\ queue' = QueuePush(queue, Head(outputCh))
    /\ outputCh' = Tail(outputCh)
    /\ last_modified_time' = clock
    /\ pushed' = Append(pushed, Head(outputCh))
    /\ dirty' = TRUE
    /\ UNCHANGED <<eventCh, nOps, nKeys, batch, dispVars, bcast, resetPending,
                   promptVars, notifyCh, notifyShown, pipeVars>>
    /\ UNCHANGED <<aggVars, keyVars, position, last_render_time, clock,
                   nScrolls, draws, lastShift, lastReset, dlvVars>>
    /\ UNCHANGED <<viewVars, taskVars>>

-----------------------------------------------------------------------------
(* The tasks of a stage *)

HasLine(s) == s # <<>> /\ Head(s)[2] = "ok"
\* next_line() answering Err has consumed the line
AfterErr(s) == IF s # <<>> /\ Head(s)[2] = "bad" THEN Tail(s) ELSE s

\* A variant of the select! loop whose else branch does not return
SelectOutcomesNoReturn(t, p, i) ==
    {[t EXCEPT !.outpc = "send", !.held = <<<<p, i, "out", Head(t.stdout)[1]>>>>,
               !.stdout = Tail(t.stdout), !.stderr = se]
        : se \in IF HasLine(t.stdout) THEN {t.stderr, AfterErr(t.stderr)} ELSE {}}
    \cup
    {[t EXCEPT !.outpc = "send", !.held = <<<<p, i, "err", Head(t.stderr)[1]>>>>,
               !.stderr = Tail(t.stderr), !.stdout = so]
        : so \in IF HasLine(t.stderr) THEN {t.stdout, AfterErr(t.stdout)} ELSE {}}
    \cup
    (IF ~HasLine(t.stdout) /\ ~HasLine(t.stderr)
     THEN {[t EXCEPT !.stdout = AfterErr(t.stdout),
                     !.stderr = AfterErr(t.stderr)]}
     ELSE {})

\* spawn_process_output: one round of the select! loop.  A branch whose
\* result is not Ok(Some(_)) is disabled for the round; the else branch runs
\* when both are disabled.
SelectOutcomes(t, p, i) ==
    {[t EXCEPT !.outpc = "send", !.held = <<<<p, i, "out", Head(t.stdout)[1]>>>>,
               !.stdout = Tail(t.stdout), !.stderr = se]
        : se \in IF HasLine(t.stdout) THEN {t.stderr, AfterErr(t.stderr)} ELSE {}}
    \cup
    {[t EXCEPT !.outpc = "send", !.held = <<<<p, i, "err", Head(t.stderr)[1]>>>>,
               !.stderr = Tail(t.stderr), !.stdout = so]
        : so \in IF HasLine(t.stderr) THEN {t.stdout, AfterErr(t.stdout)} ELSE {}}
    \cup
    (IF ~HasLine(t.stdout) /\ ~HasLine(t.stderr)
     THEN {[t EXCEPT !.outpc = "done", !.stdout = AfterErr(t.stdout),
                     !.stderr = AfterErr(t.stderr)]}
     ELSE {})

OutSelect(p, i) ==
    /\ Running
    /\ task[p][i].outpc = "select"
    /\ \E t2 \in SelectOutcomes(task[p][i], p, i) :
            task' = [task EXCEPT ![p][i] = Settle(t2)]
    /\ UNCHANGED <<eventCh, nOps, nKeys, batch, dispVars, bcast, resetPending,
                   promptVars, notifyCh, notifyShown, outputCh, queue, pipelines,
                   chan>>
    /\ UNCHANGED <<aggVars, keyVars, outVars, dlvVars>>
    /\ UNCHANGED <<viewVars, taskVars>>

\* tx.send(line).await to the output sink
OutSendSink(p, i) ==
    /\ Running
    /\ task[p][i].outpc = "send"
    /\ task[p][i].tx = 0
    /\ HasRoom(outputCh, OutputCap)
    /\ outputCh' = Append(outputCh, Head(task[p][i].held))
    /\ task' = [task EXCEPT ![p][i] =
                    [@ EXCEPT !.outpc = "select", !.held = <<>>,
                              !.fwd = Append(@, Head(task[p][i].held))]]
    /\ UNCHANGED <<eventCh, nOps, nKeys, batch, dispVars, bcast, resetPending,
                   promptVars, notifyCh, notifyShown, queue, pipelines, chan>>
    /\ UNCHANGED <<aggVars, keyVars, outVars, dlvVars>>
    /\ UNCHANGED <<viewVars, taskVars>>

\* tx.send(line).await to the next stage: Err when the receiver is gone
OutSendPipe(p, i) ==
    /\ Running
    /\ task[p][i].outpc = "send"
    /\ task[p][i].tx # 0
    /\ LET j == task[p][i].tx IN
       IF ~chan[p][j].rxOpen
       THEN /\ task' = [task EXCEPT ![p][i] = [@ EXCEPT !.outpc = "select", !.held = <<>>]]
            /\ UNCHANGED chan
       ELSE /\ HasRoom(chan[p][j].buf, InterStageCap)
            /\ chan' = [chan EXCEPT ![p][j].buf = Append(@, Head(task[p][i].held))]
            /\ task' = [task EXCEPT ![p][i] =
                    [@ EXCEPT !.outpc = "select", !.held = <<>>,
                              !.fwd = Append(@, Head(task[p][i].held))]]
    /\ UNCHANGED <<eventCh, nOps, nKeys, batch, dispVars, bcast, resetPending,
                   promptVars, notifyCh, notifyShown, outputCh, queue, pipelines>>
    /\ UNCHANGED <<aggVars, keyVars, outVars, dlvVars>>
    /\ UNCHANGED <<viewVars, taskVars>>

\* the stdin-feeding task: rx.recv() gives a line, written to the stdin
InRecvLine(p, i) ==
    /\ Running
    /\ task[p][i].inpc = "recv"
    /\ chan[p][i].buf # <<>>
    /\ chan' = [chan EXCEPT ![p][i].buf = Tail(@)]
    /\ task' = [task EXCEPT ![p][i].stdinW = Append(@, Head(chan[p][i].buf))]
    /\ UNCHANGED <<eventCh, nOps, nKeys, batch, dispVars, bcast, resetPending,
                   promptVars, notifyCh, notifyShown, outputCh, queue, pipelines>>
    /\ UNCHANGED <<aggVars, keyVars, outVars, dlvVars>>
    /\ UNCHANGED <<viewVars, taskVars>>

\* rx.recv() gives None: every sender is gone and the channel is empty
InRecvNone(p, i) ==
    /\ Running
    /\ task[p][i].inpc = "recv"
    /\ chan[p][i].buf = <<>>
    /\ ~OutRunning(task[p][i - 1])
    /\ chan' = [chan EXCEPT ![p][i].rxOpen = FALSE]
    /\ task' = [task EXCEPT ![p][i] = Settle([@ EXCEPT !.inpc = "done"])]
    /\ UNCHANGED <<eventCh, nOps, nKeys, batch, dispVars, bcast, resetPending,
                   promptVars, notifyCh, notifyShown, outputCh, queue, pipelines>>
    /\ UNCHANGED <<aggVars, keyVars, outVars, dlvVars>>
    /\ UNCHANGED <<viewVars, taskVars>>

-----------------------------------------------------------------------------
(* The program from its construction *)

\* What a spawned process may write
SmallProgs == {Prog(<<L(1)>>, <<>>), Prog(<<>>, <<L(1)>>)}

StageNext ==
    \/ \E p \in DOMAIN task : \E i \in DOMAIN task[p] : OutSelect(p, i)
    \/ \E p \in DOMAIN task : \E i \in DOMAIN task[p] : OutSendSink(p, i)
    \/ \E p \in DOMAIN task : \E i \in DOMAIN task[p] : OutSendPipe(p, i)
    \/ \E p \in DOMAIN task : \E i \in DOMAIN task[p] : InRecvLine(p, i)
    \/ \E p \in DOMAIN task : \E i \in DOMAIN task[p] : InRecvNone(p, i)

Next ==
    \/ AggregatorTick(AllOps)
    \/ DispatchRecv
    \/ DispatchQuit
    \/ DispatchBroadcast
    \/ DispatchEnter
    \/ DispatchNotifyNone
    \/ DispatchSpawn(SmallProgs, SmallProgs)
    \/ DispatchNotifyErr
    \/ PromptLagged
    \/ PromptInsert
    \/ PromptNotifySend
    \/ PromptToggle
    \/ PromptEdit
    \/ NotifyRecv
    \/ OutputReset
    \/ OutputLine
    \/ StageNext

Spec == Init /\ [][Next]_vars

-----------------------------------------------------------------------------
(* The pipeline engine under submissions of a registry already filled in *)

\* The registry after tail inserts and typing: keys (1,1), (2,1), ..
MkRegistry(texts) ==
    [i \in 1..Len(texts) |-> [key |-> <<i, 1>>, ignore |-> FALSE, text |-> texts[i]]]

PipeTexts == {<< <<"a">> >>,
              << <<"a">>, <<"a">> >>,
              << <<"a">>, <<"a">>, <<"a">> >>,
              << <<"a">>, <<"x">> >>}

RichProgs == {Prog(<<L(1), L(2)>>, <<>>),
              Prog(<<L(1)>>, <<L(1)>>),
              Prog(<<B(1), L(2)>>, <<>>)}

\* One submission: the batch holding Enter is in the channel, no more input
InitPipe ==
    \E t \in PipeTexts : Boot(<< <<EnterOp>> >>, MkRegistry(t), Len(t) + PaneReserve)

NextPipe ==
    \/ DispatchRecv
    \/ DispatchEnter
    \/ DispatchSpawn(RichProgs, RichProgs)
    \/ DispatchNotifyErr
    \/ NotifyRecv
    \/ OutputLine
    \/ StageNext

SpecPipe == InitPipe /\ [][NextPipe]_vars

-----------------------------------------------------------------------------
(* Two stages submitted again and again *)

TwoStages == << <<"a">>, <<"a">> >>

InitResubmit == Boot(<<>>, MkRegistry(TwoStages), Len(TwoStages) + PaneReserve)

NextResubmit ==
    \/ AggregatorTick({EnterOp})
    \/ DispatchRecv
    \/ DispatchEnter
    \/ DispatchNotifyNone
    \/ DispatchSpawn(SmallProgs, SmallProgs)
    \/ NotifyRecv
    \/ OutputReset
    \/ OutputLine
    \/ StageNext

SpecResubmit == InitResubmit /\ [][NextResubmit]_vars

-----------------------------------------------------------------------------
(* A head stage that writes more than the inter-stage channel holds *)

Script(n) == [k \in 1..n |-> L(k)]

FloodProg == Prog(Script(InterStageCap + 2), <<>>)
QuietProg == Prog(Script(2), <<>>)

InitFlood ==
    Boot(<< <<EnterOp>> >>, MkRegistry(TwoStages), Len(TwoStages) + PaneReserve)

NextFlood ==
    \/ AggregatorTick({CtrlCOp})
    \/ DispatchRecv
    \/ DispatchQuit
    \/ DispatchEnter
    \/ DispatchSpawn({FloodProg}, {QuietProg})
    \/ OutputLine
    \/ StageNext

SpecFlood == InitFlood /\ [][NextFlood]_vars

-----------------------------------------------------------------------------
(* The output task: scrolling, the render interval and the clock *)

MaxScrolls == 2
MaxClock == 1
ViewHeight == 2

\* The VerticalScroll ops the aggregator delivers: (up, down) wheel notches.
ScrollOps == {<<0, 1>>, <<1, 0>>, <<1, 1>>}

\* Local::now() moves forward between two steps of the program.
ClockAdvance ==
    /\ Running
    /\ clock < MaxClock
    /\ clock' = clock + 1
    /\ UNCHANGED <<eventCh, nOps, nKeys, batch, dispVars, bcast, resetPending,
                   promptVars, notifyCh, notifyShown, outputCh, queue, pipeVars>>
    /\ UNCHANGED <<aggVars, keyVars, position, last_modified_time,
                   last_render_time, pushed, nScrolls, dirty, draws, lastShift,
                   lastReset, dlvVars>>
    /\ UNCHANGED <<viewVars, taskVars>>

\* The VerticalScroll branch variant that marks the content modified whatever
\* shift returned.
OutputScrollAlwaysModified ==
    /\ Running
    /\ nScrolls < MaxScrolls
    /\ nScrolls' = nScrolls + 1
    /\ \E op \in ScrollOps :
         LET up == op[1]
             down == op[2]
             r == shift(queue, position, up, down)
         IN  /\ position' = r.position
             /\ last_modified_time' = clock
             /\ dirty' = (dirty \/ r.ret)
             /\ lastShift' =
                  [ret |-> r.ret,
                   changed |-> create_pane(queue, position, ViewHeight)
                                 # create_pane(queue, r.position, ViewHeight)]
    /\ UNCHANGED <<eventCh, nOps, nKeys, batch, dispVars, bcast, resetPending,
                   promptVars, notifyCh, notifyShown, outputCh, queue, pipeVars>>
    /\ UNCHANGED <<aggVars, keyVars, last_render_time, clock, pushed, draws,
                   lastReset, dlvVars>>
    /\ UNCHANGED <<viewVars, taskVars>>

\* Ok(EventStream::Buffer(Buffer::VerticalScroll(up, down))): shift the queue
\* and, when it shifted, note the time of the modification.
OutputScroll ==
    /\ Running
    /\ nScrolls < MaxScrolls
    /\ nScrolls' = nScrolls + 1
    /\ \E op \in ScrollOps :
         LET up == op[1]
             down == op[2]
             r == shift(queue, position, up, down)
         IN  /\ position' = r.position
             /\ last_modified_time' =
                  (IF r.ret THEN clock ELSE last_modified_time)
             /\ dirty' = (dirty \/ r.ret)
             /\ lastShift' =
                  [ret |-> r.ret,
                   changed |-> create_pane(queue, position, ViewHeight)
                                 # create_pane(queue, r.position, ViewHeight)]
    /\ UNCHANGED <<eventCh, nOps, nKeys, batch, dispVars, bcast, resetPending,
                   promptVars, notifyCh, notifyShown, outputCh, queue, pipeVars>>
    /\ UNCHANGED <<aggVars, keyVars, last_render_time, clock, pushed, draws,
                   lastReset, dlvVars>>
    /\ UNCHANGED <<viewVars, taskVars>>

\* delay.tick(): redraw the output pane when it was modified after the last
\* redraw, and note the time of the redraw.
OutputTick ==
    /\ Running
    /\ \E sized \in BOOLEAN :  \* crossterm::terminal::size() is Ok
         IF last_modified_time > last_render_time /\ sized
         THEN /\ last_render_time' = clock
              /\ draws' = draws + 1
              /\ dirty' = FALSE
         ELSE UNCHANGED <<last_render_time, draws, dirty>>
    /\ UNCHANGED <<eventCh, nOps, nKeys, batch, dispVars, bcast, resetPending,
                   promptVars, notifyCh, notifyShown, outputCh, queue, pipeVars>>
    /\ UNCHANGED <<aggVars, keyVars, position, last_modified_time, clock,
                   pushed, nScrolls, lastShift, lastReset, dlvVars>>
    /\ draws' # draws => rlock = "none"
    /\ stale' = IF draws' # draws THEN panes \ Keys(editors) ELSE stale
    /\ UNCHANGED <<dimmed, panes, taskVars>>

\* One command whose output is two lines more than the queue's capacity; a
\* pipeline of one stage has no stage-to-stage channel to forward on.
OneStage == << <<"a">> >>
LongProg == Prog(Script(QueueCapacity + 2), <<>>)

\* Enter pressed twice: the second submission resets the queue the first filled.
InitOutput ==
    Boot(<< <<EnterOp, EnterOp>> >>, MkRegistry(OneStage),
         Len(OneStage) + PaneReserve)

NextOutput ==
    \/ DispatchRecv
    \/ DispatchEnter
    \/ DispatchNotifyNone
    \/ DispatchSpawn({LongProg}, {LongProg})
    \/ NotifyRecv
    \/ OutputReset
    \/ OutputLine
    \/ OutputScroll
    \/ OutputTick
    \/ ClockAdvance
    \/ \E p \in DOMAIN task : \E i \in DOMAIN task[p] : OutSelect(p, i)
    \/ \E p \in DOMAIN task : \E i \in DOMAIN task[p] : OutSendSink(p, i)

SpecOutput == InitOutput /\ [][NextOutput]_vars

-----------------------------------------------------------------------------
(* The ops on their way from the aggregator to the two subscribers *)

\* The op with its place in the order of production written on it.
Tag(op, n) ==
    [x \in DOMAIN op \cup {"n"} |-> IF x = "n" THEN n ELSE op[x]]

\* event_stream.recv() in output_stream: Err(Lagged) and an op that is not a
\* VerticalScroll complete the recv and match no branch; a VerticalScroll
\* shifts the queue.
OutputEvent ==
    /\ Running
    /\ IF obcast.lagged
       THEN /\ obcast' = [obcast EXCEPT !.lagged = FALSE]
            /\ UNCHANGED <<ohandled, position, last_modified_time, dirty,
                           nScrolls, lastShift>>
       ELSE /\ obcast.msgs # <<>>
            /\ obcast' = [obcast EXCEPT !.msgs = <<>>]
            /\ ohandled' = Serial(Head(obcast.msgs))
            /\ IF Head(obcast.msgs).k = "VerticalScroll"
               THEN LET op == Head(obcast.msgs)
                        r == shift(queue, position, op.up, op.down)
                    IN  /\ position' = r.position
                        /\ last_modified_time' =
                             (IF r.ret THEN clock ELSE last_modified_time)
                        /\ dirty' = (dirty \/ r.ret)
                        /\ nScrolls' = nScrolls + 1
                        /\ lastShift' =
                             [ret |-> r.ret,
                              changed |->
                                create_pane(queue, position, ViewHeight)
                                  # create_pane(queue, r.position, ViewHeight)]
               ELSE UNCHANGED <<position, last_modified_time, dirty, nScrolls,
                                lastShift>>
    /\ UNCHANGED <<eventCh, nOps, nKeys, batch, dispVars, bcast, resetPending,
                   promptVars, notifyCh, notifyShown, outputCh, queue, pipeVars>>
    /\ UNCHANGED <<aggVars, keyVars, last_render_time, clock, pushed, draws,
                   lastReset, handled, signalled>>
    /\ UNCHANGED <<viewVars, taskVars>>

\* The first batch: three ops of three kinds.
FirstBatch ==
    <<Tag(KeyOp(<<"a">>), 1), Tag(VerticalScrollOp(<<0, 1>>), 2),
      Tag(CtrlBOp(1), 3)>>

\* The ops of the batches that follow, one op a batch.
DeliverOps == {KeyOp(<<"x">>), VerticalScrollOp(<<1, 0>>), CtrlDOp(1)}

InitDeliver ==
    Boot(<<FirstBatch>>, MkRegistry(OneStage), Len(OneStage) + PaneReserve)

NextDeliver ==
    \/ AggregatorTick({Tag(op, Len(FirstBatch) + nOps) : op \in DeliverOps})
    \/ DispatchRecv
    \/ DispatchBroadcast
    \/ PromptLagged
    \/ PromptInsert
    \/ PromptNotifySend
    \/ PromptRemove
    \/ PromptEdit
    \/ NotifyRecv
    \/ OutputEvent

SpecDeliver == InitDeliver /\ [][NextDeliver]_vars

-----------------------------------------------------------------------------
(* The aggregator alone: raw events pushed, one tick *)

NextOperate ==
    \/ AggregatorPush
    \/ AggregatorDrain

SpecOperate == Init /\ [][NextOperate]_vars

-----------------------------------------------------------------------------
(* EditorIndex::mediant on keys of a bounded range *)

MaxPart == 5
KeyRange == (1..MaxPart) \X (1..MaxPart)

InitKeys ==
    \E a \in KeyRange, b \in KeyRange : BootWith(<<>>, <<NewEditor>>, 4, <<a, b>>)

CallMediant ==
    /\ keyRet = <<>>
    /\ keyRet' = mediant(keyArgs[1], keyArgs[2])
    /\ UNCHANGED <<eventCh, nOps, nKeys, batch, dispVars, bcast, resetPending,
                   promptVars, notifyCh, notifyShown, outputCh, queue, pipeVars,
                   aggVars, keyArgs, shifted, removed, shrunk, outVars, dlvVars>>
    /\ UNCHANGED <<viewVars, taskVars>>

NextKeys == CallMediant

SpecKeys == InitKeys /\ [][NextKeys]_vars

-----------------------------------------------------------------------------
(* The registry under inserts, removals and cursor moves *)

MaxShift == 2
RegistryHeight == 6

\* Registries the loop reaches: the first one, and the one after Ctrl+B,
\* cursor up, Ctrl+B, cursor down
RegistryStarts ==
    {<<NewEditor>>,
     <<NewEditor, [NewEditor EXCEPT !.key = <<3, 2>>], [NewEditor EXCEPT !.key = <<2, 1>>]>>}

\* Cursor moves one way, and one with up = down
CursorOps ==
    {VerticalCursorOp(<<u, 0>>) : u \in 1..MaxShift}
        \cup {VerticalCursorOp(<<0, d>>) : d \in 1..MaxShift}
        \cup {VerticalCursorOp(<<1, 1>>)}
NavOps == CursorOps \cup {CtrlBOp(1), CtrlDOp(1)}

InitRegistry == \E reg \in RegistryStarts : Boot(<<>>, reg, RegistryHeight)

NextRegistry ==
    \/ AggregatorTick(NavOps)
    \/ DispatchRecv
    \/ DispatchBroadcast
    \/ PromptLagged
    \/ PromptInsert
    \/ PromptNotifySend
    \/ PromptRemove
    \/ PromptCursor
    \/ NotifyRecv

SpecRegistry == InitRegistry /\ [][NextRegistry]_vars

-----------------------------------------------------------------------------
(* The registry loop under every op it handles *)

\* Heights a resize brings: one that leaves the head only, one that takes
\* the last editor of three, and the height the loop started with
ResizeHeights == {1, 4, RegistryHeight}

PromptOps ==
    {CtrlBOp(1), CtrlDOp(1), CtrlDOp(2), CtrlXOp(1), CtrlXOp(2), KeyOp(<<"a">>),
     VerticalCursorOp(<<1, 0>>), VerticalCursorOp(<<0, 1>>)}
        \cup {ResizeOp(1, h) : h \in ResizeHeights}

NextPrompt ==
    \/ AggregatorTick(PromptOps)
    \/ DispatchRecv
    \/ DispatchBroadcast
    \/ PromptLagged
    \/ PromptInsert
    \/ PromptNotifySend
    \/ PromptRemove
    \/ PromptCursor
    \/ PromptToggle
    \/ PromptEdit
    \/ PromptResize
    \/ NotifyRecv

SpecPrompt == InitRegistry /\ [][NextPrompt]_vars

-----------------------------------------------------------------------------
(* Properties *)

Range(s) == {s[i] : i \in DOMAIN s}
Last(s) == s[Len(s)]
IsSuffix(s, t) == Len(s) <= Len(t) /\ SubSeq(t, Len(t) - Len(s) + 1, Len(t)) = s
SpawnMarks == {"spawn_ok", "spawn_err"}
Attempt == pipelines[Len(pipelines)]

\* C1: once abort_all has returned on a pipeline, no task of any of its
\* stages is still running: neither a forwarding task nor a stdin-feeding
\* task.  The dropped JoinHandles of a Pipe stage leave both of its tasks
\* running, so this is violated.
C1_AbortCancelsEveryTask ==
    Running =>
        \A p \in DOMAIN pipelines :
            pipelines[p].aborted =>
                \A i \in DOMAIN task[p] :
                    ~OutRunning(task[p][i]) /\ ~InRunning(task[p][i])

\* C2: on a submission made while a pipeline exists, the spawn comes after the
\* abort of that pipeline and after the reset signal, in this order; every
\* pipeline that was current before a later spawn has been aborted.
C2_AbortResetThenSpawn ==
    /\ \A i \in DOMAIN subLog :
          (subLog[i] \in SpawnMarks /\ subPrev # 0) =>
              /\ i >= 3
              /\ subLog[1] = "abort"
              /\ subLog[2] = "reset"
              /\ pipelines[subPrev].aborted
              /\ task[subPrev][1].waiter # "running"
    /\ \A p \in DOMAIN pipelines : \A q \in 1..(p - 1) :
          pipelines[q].ok => pipelines[q].aborted

\* C2 happens: a replacement has been spawned over an existing pipeline
C2_Witness ==
    /\ subPrev # 0
    /\ "spawn_ok" \in Range(subLog)
    /\ cur_pipeline # subPrev

\* The submissions that still have a forwarding task running
LiveSubmissions ==
    {p \in DOMAIN task : \E i \in DOMAIN task[p] : OutRunning(task[p][i])}

\* C3: at most one submission has a stage that can still forward lines.  The
\* forwarding tasks of the Pipe stages of an aborted pipeline go on beside the
\* replacement, so this is violated.
C3_AtMostOneLive ==
    Running => Cardinality(LiveSubmissions) <= 1

\* C4: a pipeline spawned from n commands has n stages in the order of the
\* list, the first a Head without stdin, every later stage written on its
\* stdin exactly what the stage before forwarded, in that order (what is not
\* yet written waits in the channel between them), and what reaches the
\* output sink is what the last stage forwarded; with one command there is no
\* channel between stages.
C4_Wiring ==
    \A p \in DOMAIN pipelines :
        pipelines[p].ok =>
            LET n == Len(pipelines[p].cmds) IN
            /\ n >= 1
            /\ Len(task[p]) = n
            /\ \A i \in 1..n : task[p][i].cmd = pipelines[p].cmds[i]
            /\ task[p][1].kind = "Head"
            /\ task[p][1].inpc = "none"
            /\ task[p][1].stdinW = <<>>
            /\ DOMAIN chan[p] = 2..n
            /\ \A i \in 2..n :
                  /\ task[p][i].kind = "Pipe"
                  /\ task[p][i - 1].fwd = task[p][i].stdinW \o chan[p][i].buf
            /\ IsSuffix(queue \o outputCh, task[p][n].fwd)

\* C4 happens: three stages, the last one fed by the second, and a line of
\* the last one in the scrollback
C4_Witness ==
    \E p \in DOMAIN pipelines :
        /\ pipelines[p].ok
        /\ Len(task[p]) = 3
        /\ task[p][3].stdinW # <<>>
        /\ task[p][2].stdinW # <<>>
        /\ queue # <<>>

\* C5: a forwarding task has ended only when both streams of its process are
\* exhausted.  A read error on one stream while the other is at its end ends
\* the task with lines unread, so this is violated.
C5_EndsOnlyWhenBothExhausted ==
    \A p \in DOMAIN task : \A i \in DOMAIN task[p] :
        task[p][i].outpc = "done" =>
            task[p][i].stdout = <<>> /\ task[p][i].stderr = <<>>

\* The numbers of the lines of a stream among the lines a stage has sent or
\* holds, followed by the numbers of the lines the stream has yet to give
StreamAccount(t, stream) ==
    LET sent == t.fwd \o t.held
        mine == SelectSeq(sent, LAMBDA l : l[3] = stream)
        rest == IF stream = "out" THEN t.stdout ELSE t.stderr
    IN  [k \in 1..Len(mine) |-> mine[k][4]] \o [k \in 1..Len(rest) |-> rest[k][1]]

IsCount(s) == \A k \in DOMAIN s : s[k] = k

\* The channel a stage sends to is full
DestFull(p, i) ==
    IF task[p][i].tx = 0 THEN ~HasRoom(outputCh, OutputCap)
    ELSE chan[p][task[p][i].tx].rxOpen
         /\ ~HasRoom(chan[p][task[p][i].tx].buf, InterStageCap)

CapacitiesHold ==
    /\ \A p \in DOMAIN chan : \A j \in DOMAIN chan[p] :
          Len(chan[p][j].buf) <= InterStageCap
    /\ Len(outputCh) <= OutputCap
    /\ Len(eventCh) <= EventCap

NothingDropped ==
    Running =>
        \A p \in DOMAIN task : \A i \in DOMAIN task[p] :
            /\ IsCount(StreamAccount(task[p][i], "out"))
            /\ IsCount(StreamAccount(task[p][i], "err"))

BlockedStays ==
    \A p \in DOMAIN task : \A i \in DOMAIN task[p] :
        (task[p][i].outpc = "send" /\ DestFull(p, i)) =>
            \/ task'[p][i].outpc = "aborted"
            \/ /\ task'[p][i].outpc = "send"
               /\ task'[p][i].held = task[p][i].held

\* C6: a channel between stages never holds more than 100 lines, the output
\* sink and the event channel never more than one item; a stage whose channel
\* is full stays at its send with the line in hand until the consumer has
\* taken an item, and no line it read is dropped or kept anywhere else.
C6_BoundedWithBackpressure ==
    [](CapacitiesHold /\ NothingDropped) /\ [][BlockedStays]_vars

\* C6 happens: the channel between the stages is full, the head stage is
\* suspended at its send, the sink is full with the last stage suspended too
C6_Witness ==
    \E p \in DOMAIN chan :
        /\ Len(task[p]) = 2
        /\ Len(chan[p][2].buf) = InterStageCap
        /\ task[p][1].outpc = "send"
        /\ Len(outputCh) = OutputCap
        /\ task[p][2].outpc = "send"

Tokenizes(c) == ShlexSplit(Trim(c)).ok
Words(c) == ShlexSplit(Trim(c)).parts
BadCommand(c) == ~Tokenizes(c) \/ Words(c) = <<>> \/ Words(c)[1] \notin Installed
ErrorsSent == Cardinality({i \in DOMAIN subLog : subLog[i] = "error"})

\* C7: Pipeline::spawn answers an error exactly when the list is empty or
\* holds a command that does not tokenize, is empty once tokenized, or names
\* a program that is not found; after a failed spawn the dispatcher sends one
\* Error notification, goes on, and the current pipeline is the one it was.
C7_FailureIsOneError ==
    /\ \A p \in DOMAIN pipelines :
          LET c == pipelines[p].cmds IN
          /\ pipelines[p].ok <=> (c # <<>> /\ \A i \in DOMAIN c : ~BadCommand(c[i]))
          /\ (c = <<>>) <=> (pipelines[p].err = "EmptyPipeline")
          /\ pipelines[p].ok <=> (pipelines[p].err = "")
    /\ "error" \in Range(subLog) => "spawn_err" \in Range(subLog)
    /\ "spawn_err" \in Range(subLog) =>
          /\ ~Attempt.ok
          /\ cur_pipeline = subPrev
          /\ dpc \in {"notifyErr", "idle", "exited"}
          /\ ErrorsSent = IF dpc = "notifyErr" THEN 0 ELSE 1

\* C7 happens: a submission over an existing pipeline failed on a program
\* that is not found, and its notification has been sent
C7_Witness ==
    /\ "error" \in Range(subLog)
    /\ subPrev # 0
    /\ Attempt.err = "NotFound"
    /\ dpc = "idle"

ParseErrors == {"InvalidSyntax", "EmptyCommand", "EmptyPipeline"}

FailedOnParse ==
    /\ "spawn_err" \in Range(subLog)
    /\ Attempt.err \in ParseErrors

\* C8: when a submission fails on malformed text or on an empty list, the
\* pipeline that was live is not aborted and the scrollback is not reset.
\* The handler aborts and signals the reset before it attempts the spawn, so
\* this is violated.
C8_FailureLeavesPipelineUntouched ==
    (FailedOnParse /\ subPrev # 0) =>
        /\ ~pipelines[subPrev].aborted
        /\ "reset" \notin Range(subLog)

\* C8, amended: when a submission fails on malformed text or on an empty
\* list, the current pipeline is the one it was; if there was one, abort_all
\* has been called on it (its Head forwarding task is cancelled) and the reset
\* has been signalled, both before the spawn was attempted; if there was none,
\* nothing was aborted and no reset signalled.
C8_FailureAfterAbortAndReset ==
    FailedOnParse =>
        /\ cur_pipeline = subPrev
        /\ subPrev # 0 =>
              /\ pipelines[subPrev].aborted
              /\ task[subPrev][1].waiter # "running"
              /\ ~OutRunning(task[subPrev][1])
              /\ SubSeq(subLog, 1, 2) = <<"abort", "reset">>
        /\ subPrev = 0 =>
              /\ "abort" \notin Range(subLog)
              /\ "reset" \notin Range(subLog)

\* C8 happens: a submission over an existing pipeline failed on its text
C8_Witness ==
    /\ FailedOnParse
    /\ subPrev # 0
    /\ dpc = "idle"

\* C9: once a submission has succeeded and the notifications sent have been
\* shown, the pane does not show the error of a failed submission.  Without
\* a pipeline the handler sends no clearing message, so this is violated.
C9_ErrorClearedBySuccess ==
    (/\ dpc = "idle"
     /\ subLog # <<>>
     /\ Last(subLog) = "spawn_ok"
     /\ notifyCh = <<>>) =>
        notifyShown # "ErrSpawn"

SpawnStep == dpc = "texts" /\ dpc' # "texts"

NotIgnored == {i \in DOMAIN editors : ~editors[i].ignore}

\* C10: the number of commands handed to Pipeline::spawn is the number of
\* registry entries that are not ignored at that moment.  Entries with a
\* blank text are left out too, so this is violated.
C10_CountIsNotIgnored ==
    [][SpawnStep => Len(Attempt.cmds') = Cardinality(NotIgnored)]_vars

\* C10, amended: the commands handed to Pipeline::spawn are the texts of the
\* registry entries that at that moment are not ignored and whose text is
\* not blank, and a pipeline that is spawned has that many stages.
C10_CountIsNotIgnoredNotBlank ==
    [][SpawnStep =>
        /\ Len(Attempt.cmds') =
              Cardinality({i \in NotIgnored : Trim(editors[i].text) # <<>>})
        /\ Attempt.ok' => Len(task'[Len(task')]) = Len(Attempt.cmds')]_vars

\* C10 happens: a pipeline of one stage was submitted from a registry of two
\* entries, both not ignored, within three operations
C10_Witness ==
    /\ nOps = 3
    /\ Len(editors) = 2
    /\ NotIgnored = DOMAIN editors
    /\ pipelines # <<>>
    /\ Attempt.ok
    /\ Len(Attempt.cmds) = 1
    /\ Len(task[Len(task)]) = 1

-----------------------------------------------------------------------------
(* Properties of EventOperator::operate *)

SetMax(S) == CHOOSE x \in S : \A y \in S : y <= x
SetMin(S) == CHOOSE x \in S : \A y \in S : x <= y

\* The batch the tick sent and the events it was made from
Sent == eventCh[1]
ResizeEvents == {i \in DOMAIN drained : drained[i].t = "Resize"}
ResizeOps == {i \in DOMAIN Sent : Sent[i].k = "Resize"}
ResizeAt == CHOOSE i \in ResizeOps : TRUE
WithoutResize(ops) == SelectSeq(ops, LAMBDA o : o.k # "Resize")
Before(seq, i) == SubSeq(seq, 1, i - 1)
After(seq, i) == SubSeq(seq, i + 1, Len(seq))
\* The first event of the run of Resize events that ends the Resize events
LastRunStart ==
    SetMin({i \in ResizeEvents : \A j \in i..SetMax(ResizeEvents) : j \in ResizeEvents})

\* C11: a batch with a Resize event gives exactly one Resize op, with the
\* width and height of the last Resize event of the batch; a batch without a
\* Resize event gives no Resize op.
C11_OneResizeOpOfLastSize ==
    eventCh # <<>> =>
        IF ResizeEvents = {} THEN ResizeOps = {}
        ELSE /\ Cardinality(ResizeOps) = 1
             /\ Sent[ResizeAt] = ResizeOp(drained[SetMax(ResizeEvents)].w,
                                          drained[SetMax(ResizeEvents)].h)

\* C11 happens: a batch with two Resize events of different sizes was sent
C11_Witness ==
    /\ eventCh # <<>>
    /\ Cardinality(ResizeEvents) = 2
    /\ drained[SetMin(ResizeEvents)] # drained[SetMax(ResizeEvents)]
    /\ Len(Sent) >= 2

\* C12: the Resize op stands where the first Resize event of the batch was:
\* before it the ops of the events before the first Resize, after it the ops
\* of the events after the first Resize.  The index kept is the one of the
\* last Resize, so this is violated.
C12_ResizeOpAtFirstResize ==
    (eventCh # <<>> /\ ResizeEvents # {}) =>
        /\ Before(Sent, ResizeAt) =
              WithoutResize(operate(Before(drained, SetMin(ResizeEvents))))
        /\ After(Sent, ResizeAt) =
              WithoutResize(operate(After(drained, SetMin(ResizeEvents))))

\* C12, amended: the Resize op stands where the last Resize event of the
\* batch was: before it the ops of the events before the last Resize (the
\* earlier Resize events give no op), after it the ops of the events after
\* it; this is where the first Resize was when the Resize events of the
\* batch are consecutive.
C12_ResizeOpAtLastResize ==
    (eventCh # <<>> /\ ResizeEvents # {}) =>
        /\ Before(Sent, ResizeAt) =
              WithoutResize(operate(Before(drained, SetMax(ResizeEvents))))
        /\ After(Sent, ResizeAt) = operate(After(drained, SetMax(ResizeEvents)))
        /\ (ResizeEvents = SetMin(ResizeEvents)..SetMax(ResizeEvents)) =>
              Before(Sent, ResizeAt) = operate(Before(drained, SetMin(ResizeEvents)))

\* C12 happens: two Resize events with a character between them, and an
\* event after the last Resize
C12_Witness ==
    /\ eventCh # <<>>
    /\ Cardinality(ResizeEvents) = 2
    /\ SetMax(ResizeEvents) = SetMin(ResizeEvents) + 2
    /\ SetMax(ResizeEvents) < Len(drained)
    /\ ResizeAt = 2

\* C13: the Resize op stands where the last run of consecutive Resize events
\* was: it comes after the ops of every event before that run, events
\* between an earlier Resize and the run included, and before the ops of
\* every event after the run; an earlier Resize gives no op of its own.
C13_ResizeOpAtLastRun ==
    (eventCh # <<>> /\ ResizeEvents # {}) =>
        /\ Sent = WithoutResize(operate(Before(drained, LastRunStart)))
                  \o <<Sent[ResizeAt]>>
                  \o operate(After(drained, SetMax(ResizeEvents)))
        /\ \A i \in DOMAIN Sent : Sent[i].k = "Resize" => i = ResizeAt

\* C13 happens: a Resize, another event, then a run of two Resize events
C13_Witness ==
    /\ eventCh # <<>>
    /\ Cardinality(ResizeEvents) = 3
    /\ LastRunStart = 3
    /\ SetMin(ResizeEvents) = 1
    /\ ResizeAt = 2

\* The runs of consecutive character events of a batch
RECURSIVE CharRuns(_, _)
CharRuns(events, run) ==
    LET closed == IF run # <<>> THEN <<run>> ELSE <<>> IN
    IF events = <<>> THEN closed
    ELSE IF extract_char(Head(events)) # <<>>
         THEN CharRuns(Tail(events), run \o extract_char(Head(events)))
         ELSE closed \o CharRuns(Tail(events), <<>>)

KeyOpsSent == SelectSeq(Sent, LAMBDA o : o.k = "Key")

\* C14: every run of k consecutive character events of a batch gives exactly
\* one Buffer::Key op holding the k characters in the order they came.
C14_CharRunIsOneKeyOp ==
    eventCh # <<>> =>
        [i \in DOMAIN KeyOpsSent |-> KeyOpsSent[i].chars] = CharRuns(drained, <<>>)

\* C14 happens: a run of three characters, then an event that is no character
C14_Witness ==
    /\ eventCh # <<>>
    /\ Len(drained) = 4
    /\ \A i \in 1..3 : extract_char(drained[i]) # <<>>
    /\ extract_char(drained[4]) = <<>>
    /\ Len(Sent) = 2

\* An event of the last arm of operate
IsOther(e) ==
    /\ e.t # "Resize"
    /\ extract_char(e) = <<>>
    /\ detect_vertical_direction(e) = <<>>
    /\ detect_vertical_scroll(e) = <<>>
    /\ detect_horizontal_direction(e) = <<>>
    /\ detect_horizontal_scroll(e) = <<>>

\* The runs of consecutive identical other events of a batch: event and length
RECURSIVE OtherRuns(_, _)
OtherRuns(events, run) ==
    LET closed == IF run # <<>> THEN <<run>> ELSE <<>> IN
    IF events = <<>> THEN closed
    ELSE IF IsOther(Head(events))
         THEN IF run # <<>> /\ run[1] = Head(events)
              THEN OtherRuns(Tail(events), <<run[1], run[2] + 1>>)
              ELSE closed \o OtherRuns(Tail(events), <<Head(events), 1>>)
         ELSE closed \o OtherRuns(Tail(events), <<>>)

OtherOpsSent == SelectSeq(Sent, LAMBDA o : o.k = "Other")

\* C15: every run of k consecutive identical other events gives exactly one
\* Buffer::Other op with that event and the count k; an other event that
\* differs from the one being counted closes that one with its count and
\* starts a count of 1.
C15_OtherRunIsOneCountedOp ==
    eventCh # <<>> =>
        [i \in DOMAIN OtherOpsSent |-> <<OtherOpsSent[i].event, OtherOpsSent[i].times>>]
            = OtherRuns(drained, <<>>)

\* C15 happens: the same other event three times, then a different one
C15_Witness ==
    /\ eventCh # <<>>
    /\ Len(drained) = 4
    /\ \A i \in 1..4 : IsOther(drained[i])
    /\ drained[1] = drained[2]
    /\ drained[2] = drained[3]
    /\ drained[3] # drained[4]
    /\ Len(Sent) = 2

\* The accumulator an event goes to
Category(e) ==
    IF e.t = "Resize" THEN <<"Resize">>
    ELSE IF extract_char(e) # <<>> THEN <<"Key">>
    ELSE IF detect_vertical_direction(e) # <<>> THEN <<"VerticalCursor">>
    ELSE IF detect_vertical_scroll(e) # <<>> THEN <<"VerticalScroll">>
    ELSE IF detect_horizontal_direction(e) # <<>> THEN <<"HorizontalCursor">>
    ELSE IF detect_horizontal_scroll(e) # <<>> THEN <<"HorizontalScroll">>
    ELSE <<"Other", e>>

OpCategory(o) == IF o.k = "Other" THEN <<"Other", o.event>> ELSE <<o.k>>

\* The categories of the runs of a batch in the order the runs came; a
\* Resize event ends a run and is no run
RECURSIVE RunCategories(_, _)
RunCategories(events, open) ==
    IF events = <<>> THEN <<>>
    ELSE LET c == Category(Head(events)) IN
         IF c = <<"Resize">> THEN RunCategories(Tail(events), <<>>)
         ELSE IF c = open THEN RunCategories(Tail(events), open)
         ELSE <<c>> \o RunCategories(Tail(events), c)

\* C16: the ops come in the order the events came and a run is never merged
\* with a later run of its category: every run of events of one category
\* gives one op, the ops of two runs of a category have the op of what came
\* between them between them.
C16_RunsInArrivalOrder ==
    eventCh # <<>> =>
        LET ops == WithoutResize(Sent) IN
        [i \in DOMAIN ops |-> OpCategory(ops[i])] = RunCategories(drained, <<>>)

\* C16 happens: characters, a cursor event, characters again
C16_Witness ==
    /\ eventCh # <<>>
    /\ Len(drained) >= 3
    /\ Category(drained[1]) = <<"Key">>
    /\ Category(drained[2]) = <<"VerticalCursor">>
    /\ Category(drained[3]) = <<"Key">>
    /\ Len(Sent) >= 3

\* The accumulators that hold something
OpenAccumulators(st) ==
    {c \in {"Key", "VerticalCursor", "HorizontalCursor", "VerticalScroll",
            "HorizontalScroll", "Other"} :
        CASE c = "Key" -> st.current_chars # <<>>
          [] c = "VerticalCursor" -> st.current_vertical # <<0, 0>>
          [] c = "HorizontalCursor" -> st.current_horizontal # <<0, 0>>
          [] c = "VerticalScroll" -> st.current_vertical_scroll # <<0, 0>>
          [] c = "HorizontalScroll" -> st.current_horizontal_scroll # <<0, 0>>
          [] OTHER -> st.current_others # <<>>}

\* The place in the events pushed of the last event of a category
LastChange(c) == SetMax({i \in DOMAIN buf : Category(buf[i])[1] = c})

\* C17: at any point of the loop of operate, the ops a flush of the open
\* accumulators appends are in the order their categories last changed; no
\* two accumulators are ever open together, so a flush appends one op at
\* most and the fixed order of the flush calls never shows.
C17_FlushInLastChangeOrder ==
    LET st == OperateLoop(OperateStart, buf)
        all == flush_all_buffers(st).result
        flushed == SubSeq(all, Len(st.result) + 1, Len(all))
    IN  /\ {flushed[i].k : i \in DOMAIN flushed} = OpenAccumulators(st)
        /\ Len(flushed) = Cardinality(OpenAccumulators(st))
        /\ \A i, j \in DOMAIN flushed :
              i < j => LastChange(flushed[i].k) < LastChange(flushed[j].k)
        /\ Cardinality(OpenAccumulators(st)) <= 1

\* C17 happens: a cursor event has flushed a character run and its own
\* accumulator is the open one
C17_Witness ==
    /\ Len(buf) = 3
    /\ Category(buf[1]) = <<"Key">>
    /\ Category(buf[2]) = <<"Other", buf[2]>>
    /\ Category(buf[3]) = <<"VerticalCursor">>
    /\ Len(OperateLoop(OperateStart, buf).result) = 2
    /\ OpenAccumulators(OperateLoop(OperateStart, buf)) = {"VerticalCursor"}

-----------------------------------------------------------------------------
(* Properties of the keys and of the registry *)

\* C18: for two keys with positive components of a bounded range, the first
\* below the second in the order of EditorIndex::cmp, the mediant is above
\* the first and below the second in that order.
C18_MediantStrictlyBetween ==
    (keyRet # <<>> /\ KeyLess(keyArgs[1], keyArgs[2])) =>
        /\ KeyLess(keyArgs[1], keyRet)
        /\ KeyLess(keyRet, keyArgs[2])

\* C18 happens: the mediant of two ordered keys that are not in lowest terms
\* and have different denominators was taken
C18_Witness ==
    /\ keyRet # <<>>
    /\ KeyLess(keyArgs[1], keyArgs[2])
    /\ keyArgs[1] = <<2, 4>>
    /\ keyArgs[2][2] # 4
    /\ keyRet[1] > MaxPart

Clamp(x, lo, hi) == IF x < lo THEN lo ELSE IF x > hi THEN hi ELSE x

\* C19: in every registry the loop reaches and for every key in it, the
\* insert next to the key makes the key (numerator+1, denominator), above
\* every key, when the key is the last one, and otherwise the mediant of the
\* key and the next key, above the one and below the other; the new key
\* compares equal to no key of the registry, and the insert puts one entry
\* more into the registry, right after the key, and keeps every entry.
C19_InsertAddsOneKeyInPlace ==
    /\ \A i, j \in DOMAIN editors : i < j => KeyLess(editors[i].key, editors[j].key)
    /\ \A i \in DOMAIN editors :
        LET k == editors[i].key
            r == insert_editor(editors, k)
        IN  /\ IF i = Len(editors)
               THEN /\ r.index = <<k[1] + 1, k[2]>>
                    /\ \A j \in DOMAIN editors : KeyLess(editors[j].key, r.index)
               ELSE /\ r.index = mediant(k, editors[i + 1].key)
                    /\ KeyLess(k, r.index)
                    /\ KeyLess(r.index, editors[i + 1].key)
            /\ \A j \in DOMAIN editors : ~KeyEq(editors[j].key, r.index)
            /\ Len(r.map) = Len(editors) + 1
            /\ r.map = SubSeq(editors, 1, i) \o <<[NewEditor EXCEPT !.key = r.index]>>
                       \o SubSeq(editors, i + 1, Len(editors))

\* C19 happens: the handler has put mediants of mediants into the registry
\* and the focused key is not the last one
C19_Witness ==
    /\ Len(editors) = 4
    /\ \E i \in DOMAIN editors : editors[i].key[2] >= 3
    /\ ~is_last(editors, cur_index)
    /\ cur_index # HEAD_INDEX

\* C20: for every key of a registry the loop reaches, shift_index does not
\* fail and gives the key at the place clamp(place of the key + down - up)
\* within the registry, the key itself when up = down; the VerticalCursor
\* handler moved the focus to that key and left the registry as it was.
C20_ShiftSaturates ==
    /\ ppc # "panicked"
    /\ \A i \in DOMAIN editors : \A up, down \in 0..MaxShift :
        LET next == shift_index(editors, editors[i].key, up, down) IN
        /\ ~shift_index_Err(editors, editors[i].key, up, down)
        /\ next = editors[Clamp(i + down - up, 1, Len(editors))].key
        /\ up = down => next = editors[i].key
    /\ shifted # <<>> =>
        /\ shifted.next = shifted.map[Clamp(Pos(shifted.map, shifted.index)
                                            + shifted.down - shifted.up,
                                            1, Len(shifted.map))].key
        /\ shifted.after = shifted.map

\* C20 happens: the handler was asked to go up further than the first
\* entry from the middle of a registry and the focus is on the first entry
C20_Witness ==
    /\ shifted # <<>>
    /\ Len(shifted.map) >= 3
    /\ Pos(shifted.map, shifted.index) = 2
    /\ shifted.up - shifted.down = 2
    /\ shifted.next = HEAD_INDEX
    /\ cur_index = HEAD_INDEX

\* C21: removing a key of the registry that is not the head deletes that
\* entry only and gives the key before it as the focus; removing the head
\* changes nothing and gives the head; Ctrl+D with a count removes the
\* focused entry, then each new focus, and stops when the focus is the head.
C21_RemoveGivesPredecessor ==
    /\ \A i \in DOMAIN editors :
        LET r == remove_editor(editors, editors[i].key) IN
        IF editors[i].key = HEAD_INDEX
        THEN r.map = editors /\ r.index = HEAD_INDEX
        ELSE /\ r.map = SubSeq(editors, 1, i - 1) \o SubSeq(editors, i + 1, Len(editors))
             /\ r.index = editors[i - 1].key
    /\ removed # <<>> =>
        LET p == Pos(removed.map, removed.index)
            first == IF p - removed.times + 1 < 2 THEN 2 ELSE p - removed.times + 1
        IN  /\ removed.after = SubSeq(removed.map, 1, first - 1)
                               \o SubSeq(removed.map, p + 1, Len(removed.map))
            /\ removed.next = removed.map[first - 1].key

\* C21 happens: Ctrl+D with count 2 on the second of three editors removed
\* that one and stopped at the head
C21_Witness ==
    /\ removed # <<>>
    /\ removed.times = 2
    /\ Len(removed.map) >= 3
    /\ Pos(removed.map, removed.index) = 2
    /\ Len(removed.after) = Len(removed.map) - 1
    /\ removed.next = HEAD_INDEX

\* C24: from every registry the loop reaches, with room for the inserts,
\* the Ctrl+B loop with a count followed by the Ctrl+D loop with the same
\* count gives back the keys and the focused key there were before.
C24_InsertThenDeleteRestores ==
    \A k \in 1..MaxEditors(terminal_shape) :
        Len(editors) + k <= MaxEditors(terminal_shape) =>
            LET a == InsertLoop(editors, cur_index, k, terminal_shape)
                b == RemoveLoop(a.map, a.index, k)
            IN  /\ ~a.full
                /\ Len(a.map) = Len(editors) + k
                /\ Keys(b.map) = Keys(editors)
                /\ b.index = cur_index

\* C24 happens: the Ctrl+D handler has undone a Ctrl+B in the middle of the
\* registry: what it found is what Ctrl+B makes of what it left
C24_Witness ==
    /\ removed # <<>>
    /\ editors = removed.after
    /\ cur_index = removed.next
    /\ ~is_last(editors, cur_index)
    /\ Len(removed.map) = Len(editors) + removed.times
    /\ InsertLoop(editors, cur_index, removed.times, terminal_shape)
          = [map |-> removed.map, index |-> removed.index, full |-> FALSE]

MinOf(a, b) == IF a < b THEN a ELSE b

\* C22: a resize to a height h below n + 2, n the number of entries, takes
\* min(n + 2 - h, n - 1) entries, the ones with the greatest keys, never the
\* head; the other entries stay as they were and the keys taken are the
\* keys the renderer is told to remove; a height of n + 2 or more takes none.
C22_ShrinkPopsGreatestKeys ==
    shrunk # <<>> =>
        LET n == Len(shrunk.map)
            gone == IF shrunk.height < n + PaneReserve
                    THEN MinOf(n + PaneReserve - shrunk.height, n - 1)
                    ELSE 0
        IN  /\ shrunk.after = SubSeq(shrunk.map, 1, n - gone)
            /\ Len(shrunk.panes) = gone
            /\ Range(shrunk.panes) = {shrunk.map[i].key : i \in (n - gone + 1)..n}

\* C22 happens: a resize to height 4 took the last of three editors
C22_Witness ==
    /\ shrunk # <<>>
    /\ Len(shrunk.map) = 3
    /\ shrunk.height = 4
    /\ Len(shrunk.after) = 2
    /\ shrunk.panes = <<shrunk.map[3].key>>

\* The registry loop takes a Ctrl+X op
ToggleStep ==
    /\ ppc = "recv"
    /\ ~bcast.lagged
    /\ bcast.msgs # <<>>
    /\ Head(bcast.msgs).k = "CtrlX"
    /\ bcast'.msgs = <<>>

\* C23: handling Ctrl+X changes the ignore flag of the focused entry only:
\* an odd count flips it, an even count leaves it; the keys, the texts, the
\* focus and the flags of the other entries stay as they were.
C23_ToggleChangesOneFlag ==
    [][ToggleStep =>
        /\ cur_index' = cur_index
        /\ editors' = [editors EXCEPT ![Pos(editors, cur_index)].ignore =
                            IF Head(bcast.msgs).times % 2 = 1 THEN ~@ ELSE @]]_vars

\* C23 happens: the focused editor of several, with a text, is ignored
C23_Witness ==
    /\ Len(editors) >= 2
    /\ Entry(editors, cur_index).ignore
    /\ Entry(editors, cur_index).text # <<>>
    /\ \E i \in DOMAIN editors : ~editors[i].ignore

\* C25: the focused key is always a key of the registry, so no handler of
\* the registry loop meets a key that is not found.
C25_FocusIsPresent ==
    /\ cur_index \in Keys(editors)
    /\ contains_key(editors, cur_index)
    /\ ~seek_index_Err(editors, cur_index)
    /\ ppc # "panicked"

\* C25 happens: a cursor move, a removal and a resize that took editors
\* were all handled
C25_Witness ==
    /\ shifted # <<>>
    /\ shifted.next # shifted.index
    /\ removed # <<>>
    /\ Len(removed.after) < Len(removed.map)
    /\ shrunk # <<>>
    /\ Len(shrunk.after) < Len(shrunk.map)

\* C26: the registry always holds the key (1,1), every other key is above
\* it, and no removal and no resize takes it.
C26_HeadIsPermanent ==
    /\ editors # <<>>
    /\ editors[1].key = HEAD_INDEX
    /\ \A i \in DOMAIN editors : i > 1 => KeyLess(HEAD_INDEX, editors[i].key)
    /\ removed # <<>> => HEAD_INDEX \in Keys(removed.after)
    /\ shrunk # <<>> => HEAD_INDEX \in Keys(shrunk.after)

\* C26 happens: a resize to height 1 left the head editor only and Ctrl+D on
\* the head editor removed nothing
C26_Witness ==
    /\ shrunk # <<>>
    /\ Len(shrunk.map) >= 2
    /\ shrunk.height = 1
    /\ Len(shrunk.after) = 1
    /\ removed # <<>>
    /\ removed.index = HEAD_INDEX
    /\ removed.after = removed.map


-----------------------------------------------------------------------------
(* The scrollback queue and the output task *)

\* The last n elements of a sequence.
LastN(q, n) == SubSeq(q, Len(q) - n + 1, Len(q))

\* C27: the scrollback queue is a bounded FIFO: after n pushes since the last
\* reset it holds exactly the min(n, capacity) most recently pushed lines in
\* arrival order, so it never holds more than capacity lines.
C27_QueueIsBoundedFifo ==
    /\ Len(queue) <= QueueCapacity
    /\ queue = LastN(pushed, MinOf(Len(pushed), QueueCapacity))

\* length - viewport height, or 0 when the content is shorter than the viewport.
ScrollLimit(len, height) == IF len > height THEN len - height ELSE 0

\* C28: after any sequence of push, shift and reset operations the scroll
\* cursor lies within [0, length - viewport height], and shift(up, down)
\* returned true exactly when the visible window changed.
C28_CursorWithinScrollRange ==
    /\ position \in 0..ScrollLimit(Len(queue), ViewHeight)
    /\ lastShift # <<>> =>
         (lastShift.ret <=> lastShift.changed)

\* The contents of a freshly created queue after the given lines were pushed.
RECURSIVE FreshAfter(_)
FreshAfter(lines) ==
    IF lines = <<>>
    THEN NewQueue.contents
    ELSE QueuePush(FreshAfter(SubSeq(lines, 1, Len(lines) - 1)),
                   lines[Len(lines)])

\* C29: reset discards all content and restores the default view: whatever
\* pushes and shifts came before it, the queue is then empty with the scroll
\* cursor at position 0, and the pushes that follow fill it and evict from it
\* exactly as they do on a freshly created queue of the same capacity.
C29_ResetRestoresFreshQueue ==
    /\ queue = FreshAfter(pushed)
    /\ pushed = <<>> => (queue = <<>> /\ position = 0)

C29_Witness ==
    /\ lastReset # <<>>
    /\ lastReset.len > QueueCapacity
    /\ lastReset.position > 0
    /\ Len(pushed) > QueueCapacity + 1
    /\ Len(queue) = QueueCapacity + 1

\* A step that redraws the output pane.
DrawStep == draws' # draws

\* A step that handles a VerticalScroll op for which shift returned false.
RefusedScrollStep == nScrolls' # nScrolls /\ ~lastShift'.ret

\* C30: the output pane is redrawn only on a render-interval tick and only if
\* the content was modified (a line pushed, or a scroll that shift accepted)
\* since its last redraw; and a shift that returns false does not mark the
\* content modified.
C30_RedrawOnlyWhenModified ==
    [][/\ DrawStep =>
            /\ dirty
            /\ last_modified_time > last_render_time
            /\ UNCHANGED <<queue, position, outputCh, resetPending, nScrolls,
                           last_modified_time>>
       /\ ~dirty => ~DrawStep
       /\ RefusedScrollStep =>
            UNCHANGED <<last_modified_time, dirty, position>>]_vars

C30_Witness ==
    /\ draws > 0
    /\ ~dirty
    /\ lastShift # <<>>
    /\ ~lastShift.ret
    /\ last_modified_time <= last_render_time
    /\ last_render_time > 0

-----------------------------------------------------------------------------
(* Delivery of the ops to the subscribers *)

\* C31: the ops reach the registry loop and the output task in the order the
\* aggregator produced them: whenever a subscriber receives an op, that op was
\* produced after the op the subscriber received before it, within a batch and
\* from one batch to the next.
C31_DeliveredInOrder ==
    [][/\ handled' # handled => handled' > handled
       /\ ohandled' # ohandled => ohandled' > ohandled]_vars

C31_Witness ==
    /\ handled > Len(FirstBatch)
    /\ ohandled > Len(FirstBatch)
    /\ handled # ohandled

\* A send that replaces an op the registry loop has not received.
Overwritten ==
    /\ bcast.msgs # <<>>
    /\ bcast'.msgs # <<>>
    /\ Serial(Head(bcast'.msgs)) # Serial(Head(bcast.msgs))

\* C32: the only ops the registry loop can miss on the capacity-1 broadcast
\* channel are supersede-able ones (an older resize): a character run, a cursor
\* move, an insert or delete of a stage or another editing op is never replaced
\* in the channel before the registry loop has received it.
C32_EditingOpsAlwaysReceived ==
    [][Overwritten => Head(bcast.msgs).k = "Resize"]_vars

\* C33: once the output task has processed the reset of a resubmission, every
\* line it pushes into the queue comes from a pipeline spawned after that
\* reset was signalled, never from the aborted pipeline.
C33_NoStaleOutputAfterReset ==
    lastReset # <<>> =>
        \A i \in DOMAIN pushed : pushed[i][1] > signalled[lastReset.n]

-----------------------------------------------------------------------------
(* Pipelines that fail to spawn or run to their end *)

\* C34: spawn is all-or-nothing: when Pipeline::spawn has returned an error
\* for a stage after the first, none of the stages it had already started has
\* a task left running.
C34_FailedSpawnLeavesNothingRunning ==
    \A p \in DOMAIN pipelines :
        ~pipelines[p].ok =>
            \A i \in DOMAIN task[p] :
                ~OutRunning(task[p][i]) /\ ~InRunning(task[p][i])

-----------------------------------------------------------------------------
(* What a batch of events amounts to *)

\* The number of raw events an op stands for.
Weight(o) ==
    CASE o.k = "Key" -> Len(o.chars)
      [] o.k \in {"VerticalCursor", "VerticalScroll"} -> o.up + o.down
      [] o.k \in {"HorizontalCursor", "HorizontalScroll"} -> o.left + o.right
      [] o.k = "Other" -> o.times
      [] OTHER -> 0

RECURSIVE SumWeights(_)
SumWeights(ops) ==
    IF ops = <<>> THEN 0 ELSE Weight(Head(ops)) + SumWeights(Tail(ops))

\* The characters of the character events of a batch, in order.
RECURSIVE CharEvents(_)
CharEvents(events) ==
    IF events = <<>> THEN <<>>
    ELSE extract_char(Head(events)) \o CharEvents(Tail(events))

\* The characters of the Buffer::Key ops, in order.
RECURSIVE KeyChars(_)
KeyChars(ops) ==
    IF ops = <<>> THEN <<>>
    ELSE (IF Head(ops).k = "Key" THEN Head(ops).chars ELSE <<>>)
            \o KeyChars(Tail(ops))

\* C37: aggregation loses and invents nothing: the events of a batch that are
\* no Resize are as many as the ops stand for (the lengths of the character
\* runs, the up + down and left + right totals of the cursor and scroll ops,
\* the repeat counts of the Other ops); the Key runs put end to end are the
\* batch's characters in order; an empty batch gives no op.
C37_NothingLostNothingInvented ==
    eventCh # <<>> =>
        /\ SumWeights(Sent)
             = Cardinality({i \in DOMAIN drained : drained[i].t # "Resize"})
        /\ KeyChars(Sent) = CharEvents(drained)
        /\ drained = <<>> => Sent = <<>>

C37_Witness ==
    /\ eventCh # <<>>
    /\ Len(drained) = MaxEvents
    /\ \E i \in DOMAIN drained : drained[i].t = "Resize"
    /\ \E i \in DOMAIN Sent : Sent[i].k = "Other" /\ Sent[i].times = 2
    /\ \E i \in DOMAIN Sent : Sent[i].k = "HorizontalCursor"

-----------------------------------------------------------------------------
(* The registry and the height of the terminal *)

\* The step in which the registry loop handles a Ctrl+B
InsertStep ==
    /\ PromptReady
    /\ Head(bcast.msgs).k = "CtrlB"
    /\ bcast'.msgs = <<>>

\* C38: after the registry loop has handled an operation the registry holds
\* at most max(1, h - 2) entries, h being the height the loop recorded last;
\* an insert attempted when the count has reached h - 2 adds no entry and
\* sends the notification "Cannot create more editors".
C38_EntriesBoundedByViewport ==
    [][/\ Len(editors') <=
            (IF terminal_shape' - PaneReserve > 1
             THEN terminal_shape' - PaneReserve ELSE 1)
       /\ (InsertStep /\ Len(editors) >= terminal_shape - PaneReserve)
            => editors' = editors /\ ppc' = "notify"
       /\ (ppc = "notify" /\ ppc' # "notify")
            => notifyCh' = Append(notifyCh, "ErrEditors")]_vars

C38_Witness ==
    /\ shrunk # <<>>
    /\ shrunk.panes # <<>>
    /\ Len(editors) = terminal_shape - PaneReserve
    /\ Len(editors) > 1
    /\ notifyCh = <<"ErrEditors">>

-----------------------------------------------------------------------------
(* The styles of the editors *)

\* C39: after the registry loop has handled an operation the focused entry
\* has the focused style (no Attribute::Dim) and every other entry of the
\* registry has the dimmed style.  A resize that shrinks the registry focuses
\* the head editor without dimming the entry that was focused, so an entry
\* that survives the shrink keeps the focused style: this is violated.
C39_ExactlyOneLooksFocused ==
    ppc = "recv" => dimmed = Keys(editors) \ {cur_index}

-----------------------------------------------------------------------------
(* The registry loop and the notification task from one await to the next:
   who holds the registry mutex and the renderer mutex *)

\* What neither the registry loop nor the notification task touches
restVars == <<eventCh, nOps, nKeys, batch, dispVars, resetPending, outputCh,
              queue, pipeVars, aggVars, keyVars, outVars, obcast, ohandled,
              signalled>>

\* rx.recv() gives an op; a Resize is recorded before any lock is asked for,
\* and a Ctrl+X with an even count goes to the final render at once
LoopRecv ==
    /\ PromptReady
    /\ LET op == Head(bcast.msgs) IN
        /\ hnd' = [op |-> op, keys |-> {}, index |-> cur_index]
        /\ terminal_shape' = IF op.k = "Resize" THEN op.h ELSE terminal_shape
        /\ ppc' = IF op.k = "CtrlX" /\ op.times % 2 = 0 THEN "render" ELSE "handle"
        /\ handled' = Serial(op)
    /\ bcast' = [bcast EXCEPT !.msgs = <<>>]
    /\ UNCHANGED <<editors, cur_index, notifyCh, notifyShown, viewVars, elock,
                   rlock, npc, restVars>>

Handling(k) == ppc = "handle" /\ hnd.op.k = k

\* Resize: tokio::join!(shared_editors.lock(), shared_renderer.lock()) takes
\* each mutex as it becomes free
ResizeTakeRegistry ==
    /\ Handling("Resize")
    /\ elock = "none"
    /\ elock' = "prompt"
    /\ UNCHANGED <<bcast, handled, promptVars, notifyCh, notifyShown, viewVars,
                   rlock, hnd, npc, restVars>>

ResizeTakeRenderer ==
    /\ Handling("Resize")
    /\ rlock = "none"
    /\ rlock' = "prompt"
    /\ UNCHANGED <<bcast, handled, promptVars, notifyCh, notifyShown, viewVars,
                   elock, hnd, npc, restVars>>

\* Resize with both mutexes: pop_editors, renderer.remove, switch_theme,
\* renderer.update; the guards are dropped at the end of the arm
ResizeApply ==
    /\ Handling("Resize")
    /\ elock = "prompt"
    /\ rlock = "prompt"
    /\ LET h == hnd.op.h
           r == pop_editors(editors, ShrinkTimes(Len(editors), h))
       IN  IF h < Len(editors) + PaneReserve
           THEN /\ editors' = r.map
                /\ cur_index' = HEAD_INDEX
                /\ dimmed' = switch_theme(dimmed \cap Keys(r.map), {}, HEAD_INDEX)
                /\ panes' = (panes \ Range(r.popped)) \cup Keys(r.map)
           ELSE /\ UNCHANGED <<editors, cur_index, dimmed>>
                /\ panes' = panes \cup Keys(editors)
    /\ elock' = "none"
    /\ rlock' = "none"
    /\ ppc' = "render"
    /\ UNCHANGED <<bcast, handled, terminal_shape, notifyCh, notifyShown, stale,
                   hnd, npc, restVars>>

\* Ctrl+B: the registry mutex, then the loop of inserts
InsertLock ==
    /\ Handling("CtrlB")
    /\ elock = "none"
    /\ elock' = "prompt"
    /\ LET r == InsertLoop(editors, cur_index, hnd.op.times, terminal_shape) IN
        /\ editors' = r.map
        /\ hnd' = [hnd EXCEPT !.index = r.index,
                              !.keys = {cur_index} \cup (Keys(r.map) \ Keys(editors))]
        /\ ppc' = IF r.full THEN "insert_notify" ELSE "insert_update"
    /\ UNCHANGED <<bcast, handled, cur_index, terminal_shape, notifyCh,
                   notifyShown, viewVars, rlock, npc, restVars>>

\* notify_tx.send(Error("Cannot create more editors")).await under the
\* registry mutex
InsertNotify ==
    /\ ppc = "insert_notify"
    /\ HasRoom(notifyCh, NotifyCap)
    /\ notifyCh' = Append(notifyCh, "ErrEditors")
    /\ ppc' = "insert_update"
    /\ UNCHANGED <<bcast, handled, editors, cur_index, terminal_shape,
                   notifyShown, viewVars, elock, rlock, hnd, npc, restVars>>

\* switch_theme, then shared_renderer.lock().await.update(inserts) under the
\* registry mutex; both guards are dropped at the end of the arm
InsertUpdate ==
    /\ ppc = "insert_update"
    /\ rlock = "none"
    /\ dimmed' = switch_theme(dimmed, {cur_index}, hnd.index)
    /\ panes' = panes \cup hnd.keys
    /\ cur_index' = hnd.index
    /\ elock' = "none"
    /\ ppc' = "render"
    /\ UNCHANGED <<bcast, handled, editors, terminal_shape, notifyCh,
                   notifyShown, stale, rlock, hnd, npc, restVars>>

\* A variant of the first block of the Ctrl+D handler that keeps its guard
RemoveLockKept ==
    /\ Handling("CtrlD")
    /\ elock = "none"
    /\ LET r == RemoveLoop(editors, cur_index, hnd.op.times) IN
        /\ editors' = r.map
        /\ dimmed' = switch_theme(dimmed \cap Keys(r.map), {}, r.index)
        /\ hnd' = [hnd EXCEPT !.index = r.index,
                              !.keys = Keys(editors) \ Keys(r.map)]
    /\ elock' = "prompt"
    /\ ppc' = "remove_renderer"
    /\ UNCHANGED <<bcast, handled, cur_index, terminal_shape, notifyCh,
                   notifyShown, panes, stale, rlock, npc, restVars>>

\* Ctrl+D, first block: the registry mutex, remove_editor times over,
\* switch_theme; the guard is dropped at the end of the block
RemoveLock ==
    /\ Handling("CtrlD")
    /\ elock = "none"
    /\ LET r == RemoveLoop(editors, cur_index, hnd.op.times) IN
        /\ editors' = r.map
        /\ dimmed' = switch_theme(dimmed \cap Keys(r.map), {}, r.index)
        /\ hnd' = [hnd EXCEPT !.index = r.index,
                              !.keys = Keys(editors) \ Keys(r.map)]
    /\ elock' = elock
    /\ ppc' = "remove_renderer"
    /\ UNCHANGED <<bcast, handled, cur_index, terminal_shape, notifyCh,
                   notifyShown, panes, stale, rlock, npc, restVars>>

\* Ctrl+D, second block: the renderer mutex and renderer.remove(removals)
RemoveTakeRenderer ==
    /\ ppc = "remove_renderer"
    /\ rlock = "none"
    /\ rlock' = "prompt"
    /\ panes' = panes \ hnd.keys
    /\ ppc' = "remove_registry"
    /\ UNCHANGED <<bcast, handled, editors, cur_index, terminal_shape, notifyCh,
                   notifyShown, dimmed, stale, elock, hnd, npc, restVars>>

\* ... .update([(Editor(prev_index), shared_editors.lock().await ...)]): the
\* registry mutex is asked for under the renderer mutex
RemoveUpdate ==
    /\ ppc = "remove_registry"
    /\ elock = "none"
    /\ panes' = panes \cup {hnd.index}
    /\ cur_index' = hnd.index
    /\ rlock' = "none"
    /\ ppc' = "render"
    /\ UNCHANGED <<bcast, handled, editors, terminal_shape, notifyCh,
                   notifyShown, dimmed, stale, elock, hnd, npc, restVars>>

OtherKinds == {"CtrlB", "CtrlD", "Resize"}

\* Ctrl+X, VerticalCursor and the edits: the registry mutex and the change
EditLock ==
    /\ ppc = "handle"
    /\ hnd.op.k \notin OtherKinds
    /\ elock = "none"
    /\ LET op == hnd.op IN
        CASE op.k = "CtrlX" ->
                /\ editors' = [editors EXCEPT ![Pos(editors, cur_index)].ignore = ~@]
                /\ ppc' = "edit_update"
                /\ elock' = "prompt"
                /\ UNCHANGED <<hnd, dimmed>>
          [] op.k = "VerticalCursor" ->
                IF shift_index_Err(editors, cur_index, op.up, op.down)
                THEN /\ ppc' = "panicked"
                     /\ UNCHANGED <<editors, hnd, dimmed, elock>>
                ELSE LET next == shift_index(editors, cur_index, op.up, op.down) IN
                     /\ dimmed' = switch_theme(dimmed, {cur_index}, next)
                     /\ hnd' = [hnd EXCEPT !.index = next]
                     /\ ppc' = "edit_update"
                     /\ elock' = "prompt"
                     /\ UNCHANGED editors
          [] OTHER ->
                /\ editors' = [editors EXCEPT ![Pos(editors, cur_index)].text =
                                    edit(op, @)]
                /\ ppc' = "edit_update"
                /\ elock' = "prompt"
                /\ UNCHANGED <<hnd, dimmed>>
    /\ UNCHANGED <<bcast, handled, cur_index, terminal_shape, notifyCh,
                   notifyShown, panes, stale, rlock, npc, restVars>>

\* shared_renderer.lock().await.update(..) under the registry mutex
EditUpdate ==
    /\ ppc = "edit_update"
    /\ rlock = "none"
    /\ panes' = panes \cup {cur_index, hnd.index}
    /\ cur_index' = hnd.index
    /\ elock' = "none"
    /\ ppc' = "render"
    /\ UNCHANGED <<bcast, handled, editors, terminal_shape, notifyCh,
                   notifyShown, dimmed, stale, rlock, hnd, npc, restVars>>

\* shared_renderer.lock().await.render() after the match
LoopRender ==
    /\ ppc = "render"
    /\ rlock = "none"
    /\ stale' = panes \ Keys(editors)
    /\ hnd' = <<>>
    /\ ppc' = "recv"
    /\ UNCHANGED <<bcast, handled, editors, cur_index, terminal_shape, notifyCh,
                   notifyShown, dimmed, panes, elock, rlock, npc, restVars>>

\* notify_stream: stream.recv() gives a message
NotifyTake ==
    /\ Running
    /\ npc = "recv"
    /\ notifyCh # <<>>
    /\ notifyShown' = Head(notifyCh)
    /\ notifyCh' = Tail(notifyCh)
    /\ npc' = "lock"
    /\ UNCHANGED <<bcast, handled, promptVars, viewVars, elock, rlock, hnd,
                   restVars>>

\* notify_stream: the renderer mutex, update and render
NotifyDraw ==
    /\ npc = "lock"
    /\ rlock = "none"
    /\ stale' = panes \ Keys(editors)
    /\ npc' = "recv"
    /\ UNCHANGED <<bcast, handled, promptVars, notifyCh, notifyShown, dimmed,
                   panes, elock, rlock, hnd, restVars>>

\* A command in the head editor and an empty second editor, focused, on a
\* terminal with no row to spare
TaskRegistry == MkRegistry(<< <<"a">>, <<>> >>)
OneLine == Prog(Script(1), <<>>)

TaskOps ==
    {CtrlBOp(1), CtrlDOp(1), VerticalCursorOp(<<1, 0>>), ResizeOp(1, 3), EnterOp}

InitTasks == Boot(<<>>, TaskRegistry, Len(TaskRegistry) + PaneReserve)

NextTasks ==
    \/ AggregatorTick(TaskOps)
    \/ DispatchRecv
    \/ DispatchBroadcast
    \/ DispatchEnter
    \/ DispatchNotifyNone
    \/ DispatchSpawn({OneLine}, {OneLine})
    \/ PromptLagged
    \/ LoopRecv
    \/ ResizeTakeRegistry
    \/ ResizeTakeRenderer
    \/ ResizeApply
    \/ InsertLock
    \/ InsertNotify
    \/ InsertUpdate
    \/ RemoveLock
    \/ RemoveTakeRenderer
    \/ RemoveUpdate
    \/ EditLock
    \/ EditUpdate
    \/ LoopRender
    \/ NotifyTake
    \/ NotifyDraw
    \/ OutputReset
    \/ OutputLine
    \/ \E p \in DOMAIN task : \E i \in DOMAIN task[p] : OutSelect(p, i)
    \/ \E p \in DOMAIN task : \E i \in DOMAIN task[p] : OutSendSink(p, i)

SpecTasks == InitTasks /\ [][NextTasks]_vars

-----------------------------------------------------------------------------
(* Who waits for whom *)

TaskNames == {"dispatch", "prompt", "notify", "output"}

\* The registry loop is at an await on the registry mutex
AsksRegistry ==
    \/ ppc = "handle" /\ ~(hnd.op.k = "Resize" /\ elock = "prompt")
    \/ ppc = "remove_registry"

\* The registry loop is at an await on the renderer mutex
AsksRenderer ==
    \/ ppc \in {"insert_update", "remove_renderer", "edit_update", "render"}
    \/ Handling("Resize") /\ rlock # "prompt"

\* The tasks t is waiting for: the holder of a mutex it asks for, the
\* receiver of a full channel it sends on
WaitsFor(t) ==
    CASE t = "prompt" ->
            (IF AsksRegistry /\ elock # "none" THEN {elock} ELSE {})
              \cup (IF AsksRenderer /\ rlock # "none" THEN {rlock} ELSE {})
              \cup (IF ppc = "insert_notify" /\ ~HasRoom(notifyCh, NotifyCap)
                    THEN {"notify"} ELSE {})
      [] t = "notify" ->
            IF npc = "lock" /\ rlock # "none" THEN {rlock} ELSE {}
      [] t = "output" ->
            IF resetPending > 0 /\ rlock # "none" THEN {rlock} ELSE {}
      [] t = "dispatch" ->
            (IF dpc = "notifyNone" /\ ~HasRoom(notifyCh, NotifyCap)
             THEN {"notify"} ELSE {})
              \cup (IF dpc = "texts" /\ elock # "none" THEN {elock} ELSE {})

\* The tasks reached from the set S along at most n waits
RECURSIVE Reach(_, _)
Reach(S, n) ==
    IF n = 0 THEN S
    ELSE Reach(S \cup UNION {WaitsFor(u) : u \in S}, n - 1)

LoopStep ==
    \/ ResizeTakeRegistry \/ ResizeTakeRenderer \/ ResizeApply
    \/ InsertLock \/ InsertNotify \/ InsertUpdate
    \/ RemoveLock \/ RemoveTakeRenderer \/ RemoveUpdate
    \/ EditLock \/ EditUpdate \/ LoopRender

\* C35: the dispatcher, the registry loop, the notification task and the
\* output task never wait for each other in a circle, through the registry
\* mutex, the renderer mutex and the full channels; and a task that is in the
\* middle of its work takes its next step as soon as it waits for nobody.
C35_NoTaskWaitsInACircle ==
    /\ \A t \in TaskNames :
          t \notin Reach(WaitsFor(t), Cardinality(TaskNames))
    /\ (ppc \notin {"recv", "panicked"} /\ WaitsFor("prompt") = {})
          => ENABLED LoopStep
    /\ (npc = "lock" /\ WaitsFor("notify") = {}) => ENABLED NotifyDraw
    /\ (resetPending > 0 /\ WaitsFor("output") = {}) => ENABLED OutputReset
    /\ (dpc = "notifyNone" /\ WaitsFor("dispatch") = {})
          => ENABLED DispatchNotifyNone

C35_Witness ==
    /\ WaitsFor("dispatch") = {"prompt"}
    /\ WaitsFor("prompt") = {"notify"}
    /\ npc = "lock"

-----------------------------------------------------------------------------
(* The panes of the renderer and the registry *)

PanesMirrorRegistry == ppc = "recv" => panes = Keys(editors)

\* C40: whenever the registry loop has finished handling an operation the
\* Editor panes of the renderer are the keys of the registry, and no draw
\* shows a pane for a key that the registry no longer holds.  The Ctrl+D
\* handler drops the registry mutex before it asks for the renderer, and a
\* draw of the notification task or of the output task in between shows the
\* pane of the removed editor: this is violated.
C40_PanesMirrorRegistry ==
    /\ PanesMirrorRegistry
    /\ stale = {}

-----------------------------------------------------------------------------
(* The end of the streams *)

MaxStages == 3

\* The tasks of the stages are polled and the sink is drained
SpecDrain ==
    InitPipe /\ [][NextPipe]_vars /\ WF_vars(StageNext) /\ WF_vars(OutputLine)

Started(p, i) == p \in DOMAIN task /\ i \in DOMAIN task[p]

\* Stage i of pipeline p has its channel closed and its stdin dropped
StdinClosed(p, i) ==
    Started(p, i) /\ ~chan[p][i].rxOpen /\ task[p][i].inpc = "done"

\* Nothing of pipeline p is running, and the sink got what its last stage
\* forwarded
Drained(p) ==
    /\ \A i \in DOMAIN task[p] :
          /\ ~OutRunning(task[p][i]) /\ ~InRunning(task[p][i])
          /\ task[p][i].tx = 0 => Range(task[p][i].fwd) \subseteq Range(pushed)
    /\ \A i \in DOMAIN task[p] \ {1} : StdinClosed(p, i)

\* C36: the processes closing their stdout and stderr and the sink being
\* drained, the end of the forwarding task of stage i - 1 leads to the channel
\* to stage i being closed and the stdin of stage i dropped; in the end every
\* task of every stage has ended and every line the last stage forwarded has
\* reached the sink.
C36_EndOfStreamPropagates ==
    /\ \A p \in 1..MaxSpawns : \A i \in 2..MaxStages :
          (Started(p, i) /\ ~OutRunning(task[p][i - 1])) ~> StdinClosed(p, i)
    /\ <>[](\A p \in DOMAIN task : Drained(p))

C36_Witness ==
    /\ task # <<>>
    /\ Len(task[1]) = MaxStages
    /\ Drained(1)
    /\ \E i \in DOMAIN task[1] : task[1][i].tx = 0 /\ Len(task[1][i].fwd) = 2
====
